---------------------------- MODULE Spec2Model ----------------------------
(***************************************************************************)
(* Agent orchestration and handoff subsystem of agno-zendesk:              *)
(*   backend/agent_registry.py  - AgentRegistry (types, instances,         *)
(*                                handoff trigger evaluation)              *)
(*   backend/agent_handoff.py   - HandoffManager, Session                  *)
(* and the multi-agent orchestration of agno_zendesk/multi_agent:          *)
(*   core/agent_interface.py    - AgentContext, Agent                      *)
(*   registry/agent_registry.py - AgentRegistry (agents, workflows)        *)
(*   orchestration/orchestrator.py - AgentOrchestrator                     *)
(***************************************************************************)
EXTENDS Integers, Sequences, FiniteSets, TLC

VARIABLES
    agentTypes,      \* AgentRegistry._agent_types    : agent id -> AgentMetadata
    agentClasses,    \* AgentRegistry._agent_classes  : agent id -> class
    agentInstances,  \* AgentRegistry._agent_instances: insertion-ordered dict
    session,         \* the Session objects, by session id
    handoffHistory,  \* HandoffManager.handoff_history: session id -> list
    lastCall,        \* the last operation called, its arguments and outcome
    agents,          \* multi_agent AgentRegistry.agents: insertion-ordered dict
    workflows,       \* multi_agent AgentRegistry.workflows: workflow id -> workflow
    activeWorkflows, \* AgentOrchestrator.active_workflows: conversation id -> progress
    runs,            \* the orchestrator coroutines in progress and their contexts
    now,             \* time.time()
    heap,            \* the objects stored as values in the data of sessions: id -> content
    lastActivity,    \* BaseAgent.last_activity of the instances, by instance id
    lastMessage      \* when a session last had a message processed (observation)

\* the state of the multi-agent orchestration
orchVars == <<agents, workflows, activeWorkflows, runs>>

\* the clock and what the chat API observes of it
apiVars == <<now, lastActivity, lastMessage>>

vars == <<agentTypes, agentClasses, agentInstances, session, handoffHistory, lastCall,
          agents, workflows, activeWorkflows, runs, now, lastActivity, lastMessage, heap>>

-----------------------------------------------------------------------------
(* Values *)

None == "None"

AgentIds == {"a", "b", "c"}

SessionIds == {"s1"}

\* An agent class: its constructor either builds an instance or raises.
Classes == {"Agent", "BrokenAgent"}

NoMeta == [id |-> None]

\* Bounds of the model.
MaxInstances == 3
MaxHistory == 2
MaxHandoffs == 1

-----------------------------------------------------------------------------
(* HandoffTrigger and AgentMetadata *)

NoCond == None

\* HandoffTrigger(target_agent_id, description, priority, condition_function,
\*                keyword_patterns, intent_names)
Trigger(target, description, priority, condition, keywords, intents) ==
    [target_agent_id |-> target, description |-> description, priority |-> priority,
     condition_function |-> condition, keyword_patterns |-> keywords,
     intent_names |-> intents]

\* AgentMetadata(id, requires, handoff_triggers, singleton); the descriptive
\* fields (name, version, capabilities, ...) take no part in the operations.
Metadata(id, requires, triggers, singleton) ==
    [id |-> id, requires |-> requires, handoff_triggers |-> triggers,
     singleton |-> singleton]

Registered(types, agent_id) == agent_id \in DOMAIN types /\ types[agent_id] # NoMeta

-----------------------------------------------------------------------------
(* AgentRegistry._validate_agent_metadata *)

Pop(list) == SubSeq(list, 1, Len(list) - 1)

\* The while loop over to_visit: TRUE when metadata.id is popped.
RECURSIVE CircularWalk(_, _, _, _)
CircularWalk(types, id, to_visit, visited) ==
    IF to_visit = <<>> THEN FALSE
    ELSE LET agent_id == to_visit[Len(to_visit)]
             rest == Pop(to_visit)
         IN  IF agent_id = id THEN TRUE
             ELSE IF agent_id \in visited THEN CircularWalk(types, id, rest, visited)
             ELSE CircularWalk(types, id,
                               IF Registered(types, agent_id)
                                   THEN rest \o types[agent_id].requires
                                   ELSE rest,
                               visited \cup {agent_id})

\* variant: only the metadata's own requires list is inspected
CircularDependency_DirectOnly(types, metadata) ==
    \E i \in 1..Len(metadata.requires) : metadata.requires[i] = metadata.id

CircularDependency(types, metadata) ==
    CircularWalk(types, metadata.id, metadata.requires, {})

\* variant: only the first trigger is inspected
SelfHandoff_FirstOnly(metadata) ==
    /\ metadata.handoff_triggers # <<>>
    /\ metadata.handoff_triggers[1].target_agent_id = metadata.id

SelfHandoff(metadata) ==
    \E i \in 1..Len(metadata.handoff_triggers) :
        metadata.handoff_triggers[i].target_agent_id = metadata.id

\* variant: an id that is already registered is overwritten unvalidated
ValidateAgentMetadata_NewOnly(types, metadata) ==
    IF Registered(types, metadata.id) THEN "ok"
    ELSE IF CircularDependency(types, metadata) THEN "circular_dependency"
    ELSE IF SelfHandoff(metadata) THEN "self_handoff"
    ELSE "ok"

\* "ok", or the ValueError raised.
ValidateAgentMetadata(types, metadata) ==
    IF CircularDependency(types, metadata) THEN "circular_dependency"
    ELSE IF SelfHandoff(metadata) THEN "self_handoff"
    ELSE "ok"

-----------------------------------------------------------------------------
(* Agent instances: the insertion-ordered dict instance_id -> instance;     *)
(* an instance carries the id of the metadata it was created from.         *)

Instance(instance_id, agent_id) == [id |-> instance_id, agent |-> agent_id]

InstanceIds(instances) == {instances[i].id : i \in 1..Len(instances)}

\* index of instance_id in the dict, 0 when absent
IndexOf(instances, instance_id) ==
    IF instance_id \in InstanceIds(instances)
        THEN CHOOSE i \in 1..Len(instances) : instances[i].id = instance_id
        ELSE 0

\* variant: nothing is removed
Without_Nothing(instances, keep) == instances

Without(instances, keep) ==
    LET F[i \in 0..Len(instances)] ==
            IF i = 0 THEN <<>>
            ELSE IF keep[i] THEN Append(F[i - 1], instances[i]) ELSE F[i - 1]
    IN  F[Len(instances)]

InstancesOf(instances, agent_id) ==
    {i \in 1..Len(instances) : instances[i].agent = agent_id}

\* Instance ids are pairs <<text, number>>: f"{agent_id}_{n}" is <<agent_id, n>>.
\* NoId stands for an absent instance id (None).
NoId == <<None, 0>>

\* f"{agent_id}_{len(self._agent_instances) + 1}"
GeneratedId(instances, agent_id) == <<agent_id, Len(instances) + 1>>

ExistingSingleton_Ignored(instances, agent_id) == 0

\* The singleton loop of instantiate_agent: the first instance, in dict
\* order, created from this agent id; 0 when there is none.
ExistingSingleton(instances, agent_id) ==
    IF InstancesOf(instances, agent_id) = {} THEN 0
    ELSE CHOOSE i \in InstancesOf(instances, agent_id) :
             \A j \in InstancesOf(instances, agent_id) : i <= j

\* AgentRegistry.instantiate_agent as a function of the registry state.
InstantiateAgent(types, classes, instances, agent_id, instance_id) ==
    IF ~Registered(types, agent_id)
        THEN [raised |-> "not_registered", ret |-> NoId, instances |-> instances,
              constructed |-> FALSE]
    ELSE IF types[agent_id].singleton /\ ExistingSingleton(instances, agent_id) # 0
        THEN [raised |-> None,
              ret |-> instances[ExistingSingleton(instances, agent_id)].id,
              instances |-> instances, constructed |-> FALSE]
    ELSE LET new_id == IF instance_id # NoId THEN instance_id
                       ELSE GeneratedId(instances, agent_id)
         IN  IF new_id \in InstanceIds(instances)
                 THEN [raised |-> "id_in_use", ret |-> NoId, instances |-> instances,
                       constructed |-> FALSE]
             ELSE IF classes[agent_id] = "BrokenAgent"
                 THEN [raised |-> "constructor_failed", ret |-> NoId,
                       instances |-> instances, constructed |-> FALSE]
             ELSE [raised |-> None, ret |-> new_id,
                   instances |-> Append(instances, Instance(new_id, agent_id)),
                   constructed |-> TRUE]

-----------------------------------------------------------------------------
(* Registry operations *)

\* variant: the metadata and the class are stored before the validation
RegisterAgentType_StoreFirst(metadata, agent_class) ==
    LET v == ValidateAgentMetadata(agentTypes, metadata)
    IN  /\ agentTypes' = [agentTypes EXCEPT ![metadata.id] = metadata]
        /\ agentClasses' = [agentClasses EXCEPT ![metadata.id] = agent_class]
        /\ lastCall' = [op |-> "register_agent_type", metadata |-> metadata,
                        agent_class |-> agent_class,
                        raised |-> IF v = "ok" THEN None ELSE v]
        /\ UNCHANGED <<agentInstances, session, handoffHistory, orchVars, apiVars, heap>>

RegisterAgentType(metadata, agent_class) ==
    LET v == ValidateAgentMetadata(agentTypes, metadata)
    IN  /\ IF v = "ok"
               THEN /\ agentTypes' = [agentTypes EXCEPT ![metadata.id] = metadata]
                    /\ agentClasses' = [agentClasses EXCEPT ![metadata.id] = agent_class]
               ELSE UNCHANGED <<agentTypes, agentClasses>>
        /\ lastCall' = [op |-> "register_agent_type", metadata |-> metadata,
                        agent_class |-> agent_class,
                        raised |-> IF v = "ok" THEN None ELSE v]
        /\ UNCHANGED <<agentInstances, session, handoffHistory, orchVars, apiVars, heap>>

UnregisterAgentType(agent_id) ==
    /\ IF ~Registered(agentTypes, agent_id)
           THEN UNCHANGED <<agentTypes, agentClasses, agentInstances>>
           ELSE /\ agentInstances' =
                       Without(agentInstances,
                               [i \in 1..Len(agentInstances) |->
                                   agentInstances[i].agent # agent_id])
                /\ agentTypes' = [agentTypes EXCEPT ![agent_id] = NoMeta]
                /\ agentClasses' = [agentClasses EXCEPT ![agent_id] = None]
    /\ lastCall' = [op |-> "unregister_agent_type", agent_id |-> agent_id,
                    ret |-> Registered(agentTypes, agent_id)]
    /\ UNCHANGED <<session, handoffHistory, orchVars, apiVars, heap>>

InstantiateAgentCall(agent_id, instance_id) ==
    LET r == InstantiateAgent(agentTypes, agentClasses, agentInstances,
                              agent_id, instance_id)
    IN  /\ Len(agentInstances) < MaxInstances
        /\ agentInstances' = r.instances
        /\ lastCall' = [op |-> "instantiate_agent", agent_id |-> agent_id,
                        instance_id |-> instance_id, ret |-> r.ret,
                        raised |-> r.raised, constructed |-> r.constructed]
        /\ UNCHANGED <<agentTypes, agentClasses, session, handoffHistory, orchVars, apiVars, heap>>

RemoveAgentInstance(instance_id) ==
    /\ agentInstances' =
           Without(agentInstances,
                   [i \in 1..Len(agentInstances) |-> agentInstances[i].id # instance_id])
    /\ lastCall' = [op |-> "remove_agent_instance", instance_id |-> instance_id,
                    ret |-> instance_id \in InstanceIds(agentInstances)]
    /\ UNCHANGED <<agentTypes, agentClasses, session, handoffHistory, orchVars, apiVars, heap>>

-----------------------------------------------------------------------------
(* AgentRegistry.evaluate_handoff_triggers *)

\* A message is its list of words.  re.search(pattern, message, re.IGNORECASE)
\* with a word as pattern finds it in any letter case; "(" is a pattern that
\* does not compile (re.error).
Lower(word) ==
    CASE word = "TRANSFER" -> "transfer"
      [] word = "Billing" -> "billing"
      [] word = "Retrieval" -> "retrieval"
      [] OTHER -> word

BadPattern == "("

ReSearch(pattern, message) ==
    IF pattern = BadPattern THEN "error"
    ELSE IF \E i \in 1..Len(message) : Lower(message[i]) = Lower(pattern) THEN "match"
    ELSE "nomatch"

\* the evaluation context: a dict that may or may not hold the keys
\* 'message' and 'intents'
Context(has_message, message, has_intents, intents) ==
    [has_message |-> has_message, message |-> message,
     has_intents |-> has_intents, intents |-> intents]

\* the for loop over trigger.keyword_patterns, from pattern k on
RECURSIVE KeywordLoop(_, _, _)
KeywordLoop(patterns, k, message) ==
    IF k > Len(patterns) THEN "nomatch"
    ELSE LET r == ReSearch(patterns[k], message)
         IN  IF r = "error" THEN "raise"
             ELSE IF r = "match" THEN "match"
             ELSE KeywordLoop(patterns, k + 1, message)

\* variant: no try/except around the condition function
ConditionFunction_FailureRaises(name, context) ==
    CASE name = "conds.yes" -> "match"
      [] name = "conds.no" -> "nomatch"
      [] OTHER -> "raise"

\* importlib.import_module / getattr / func(context) for the condition
\* functions of the scenario: one returns True, one returns False, one
\* raises when it is called, and any other name does not resolve.  Both
\* failures end in the except branch: logged, continue.
ConditionFunction(name, context) ==
    CASE name = "conds.yes" -> "match"
      [] name = "conds.no" -> "nomatch"
      [] name = "conds.raises" -> "skip"
      [] OTHER -> "skip"

\* One pass of the loop body for a trigger: "match" (should_handoff), "nomatch",
\* "skip" (the condition function failed: logged, continue) or "raise" (an
\* exception leaves evaluate_handoff_triggers).
TriggerOutcome(trigger, context) ==
    IF trigger.condition_function # NoCond
        THEN ConditionFunction(trigger.condition_function, context)
    ELSE IF trigger.keyword_patterns # <<>> /\ context.has_message
        THEN KeywordLoop(trigger.keyword_patterns, 1, context.message)
    ELSE IF trigger.intent_names # <<>> /\ context.has_intents
        THEN IF \E i \in 1..Len(trigger.intent_names) :
                    trigger.intent_names[i] \in context.intents
                 THEN "match" ELSE "nomatch"
    ELSE "nomatch"

\* variant: the triggers are tried in registration order
SortedByPriority_Unsorted(triggers) == [i \in 1..Len(triggers) |-> i]

\* sorted(metadata.handoff_triggers, key=lambda t: -t.priority): the indices
\* of the triggers in the sorted order (a stable sort: equal priorities keep
\* their registration order).
SortedByPriority(triggers) ==
    LET Insert(order, i) ==
            LET before == {k \in 1..Len(order) :
                              triggers[order[k]].priority >= triggers[i].priority}
                n == Cardinality(before)
            IN  SubSeq(order, 1, n) \o <<i>> \o SubSeq(order, n + 1, Len(order))
        F[i \in 0..Len(triggers)] == IF i = 0 THEN <<>> ELSE Insert(F[i - 1], i)
    IN  F[Len(triggers)]

\* the for loop over the sorted triggers, from position k on
RECURSIVE EvaluateFrom(_, _, _, _)
EvaluateFrom(triggers, order, k, context) ==
    IF k > Len(order) THEN [raised |-> FALSE, target |-> None, matched |-> 0]
    ELSE LET r == TriggerOutcome(triggers[order[k]], context)
         IN  IF r = "raise" THEN [raised |-> TRUE, target |-> None, matched |-> 0]
             ELSE IF r = "match"
                 THEN [raised |-> FALSE, target |-> triggers[order[k]].target_agent_id,
                       matched |-> order[k]]
             ELSE EvaluateFrom(triggers, order, k + 1, context)

\* [raised, target (None: no handoff), matched (index of the trigger that matched)]
EvaluateHandoffTriggers(types, agent_id, context) ==
    IF ~Registered(types, agent_id)
        THEN [raised |-> FALSE, target |-> None, matched |-> 0]
        ELSE EvaluateFrom(types[agent_id].handoff_triggers,
                          SortedByPriority(types[agent_id].handoff_triggers), 1, context)

EvaluateHandoffTriggersCall(agent_id, context) ==
    LET r == EvaluateHandoffTriggers(agentTypes, agent_id, context)
    IN  /\ lastCall' = [op |-> "evaluate_handoff_triggers", agent_id |-> agent_id,
                        context |-> context, raised |-> r.raised, ret |-> r.target]
        /\ UNCHANGED <<agentTypes, agentClasses, agentInstances, session, handoffHistory, orchVars, apiVars, heap>>


-----------------------------------------------------------------------------
(* HandoffManager *)

\* HandoffContext(source_agent_id, target_agent_id, session_id, reason,
\* message_history, collected_data).  The BaseModel validates its fields: a
\* List[Dict[str, Any]] field is rebuilt as a new list of new dicts and a
\* Dict[str, Any] field as a new dict whose values (Any) are the objects of
\* the argument, so the record holds the list and the dict by value and
\* the values of collected_data as the argument holds them, by reference
\* where they are references.
HandoffContext(source, target, session_id, reason, message_history, collected_data) ==
    [source_agent_id |-> source, target_agent_id |-> target,
     session_id |-> session_id, reason |-> reason,
     message_history |-> message_history, collected_data |-> collected_data]

\* variant: the handoff is recorded without looking the agents up
InitiateHandoff_Unvalidated(types, log, source, target, session_id, reason, message_history, collected_data) ==
    [raised |-> None,
     log |-> Append(log, HandoffContext(source, target, session_id, reason,
                                        message_history, collected_data))]

\* HandoffManager.initiate_handoff on the history list of the session:
\* raises when the source or the target agent type is not registered,
\* otherwise appends one HandoffContext.
InitiateHandoff(types, log, source, target, session_id, reason, message_history, collected_data) ==
    IF ~Registered(types, source) THEN [raised |-> "source_not_registered", log |-> log]
    ELSE IF ~Registered(types, target) THEN [raised |-> "target_not_registered", log |-> log]
    ELSE [raised |-> None,
          log |-> Append(log, HandoffContext(source, target, session_id, reason,
                                             message_history, collected_data))]

\* the description of the first trigger, in registration order, with this target
RECURSIVE FirstDescription(_, _, _)
FirstDescription(triggers, k, target) ==
    IF k > Len(triggers) THEN "Handoff trigger matched"
    ELSE IF triggers[k].target_agent_id = target THEN triggers[k].description
    ELSE FirstDescription(triggers, k + 1, target)

\* HandoffManager.evaluate_handoff: [raised, should_handoff, target, reason]
EvaluateHandoff(types, current_agent_id, context) ==
    LET r == EvaluateHandoffTriggers(types, current_agent_id, context)
    IN  IF r.raised
            THEN [raised |-> TRUE, should_handoff |-> FALSE, target |-> None, reason |-> None]
        ELSE IF r.target # None
            THEN [raised |-> FALSE, should_handoff |-> TRUE, target |-> r.target,
                  reason |-> IF Registered(types, current_agent_id)
                                 THEN FirstDescription(types[current_agent_id].handoff_triggers,
                                                       1, r.target)
                                 ELSE "Handoff trigger matched"]
        ELSE [raised |-> FALSE, should_handoff |-> FALSE, target |-> None, reason |-> None]

-----------------------------------------------------------------------------
(* Session *)

\* no Session object constructed for the id yet
NoSession == [session_id |-> None]

\* a session's data: a dict from keys to values; a value is a string or a
\* reference to an object of the heap (a dict, a list)
NoData == <<>>

Ref(o) == [ref |-> o]

NewSession(session_id, initial_agent_id, initial_data) ==
    [session_id |-> session_id, active_agent_id |-> initial_agent_id,
     active_agent_instance_id |-> NoId, data |-> initial_data, message_history |-> <<>>]

NoAgent == Instance(NoId, None)

\* What an agent's process_message does with a message: it raises, or it
\* returns a dict with or without 'message' and with or without 'handoff_to'.
Response(raises, has_message, handoff_to, handoff_reason) ==
    [raises |-> raises, has_message |-> has_message, handoff_to |-> handoff_to,
     handoff_reason |-> handoff_reason]

Responses ==
    {Response(TRUE, FALSE, None, None), Response(FALSE, TRUE, None, None),
     Response(FALSE, FALSE, None, None)}
        \cup {Response(FALSE, TRUE, "b", "agent_reason")}

\* the responses of the process_message calls of one handler: one call, or
\* a first call whose reply asks for a handoff and the call of the target
ResponseScripts ==
    {<<r>> : r \in Responses}
        \cup {<<r1, r2>> : r1 \in {r \in Responses : r.handoff_to # None}, r2 \in Responses}

UserEntry(message) == [role |-> "user", content |-> message]

AssistantEntry == [role |-> "assistant", content |-> <<"reply">>]

\* one call of agent.process_message, as recorded in the trace of a handler
ProcessEvent(agent, active_agent_id, message, with_handoff_context) ==
    [event |-> "process_message", instance |-> agent.id, agent |-> agent.agent,
     active_agent_id |-> active_agent_id, message |-> message,
     handoff_context |-> with_handoff_context]

HandoffEvent(source, target) ==
    [event |-> "initiate_handoff", instance |-> NoId, agent |-> source,
     active_agent_id |-> source, message |-> <<>>, handoff_context |-> FALSE]

\* Session.get_active_agent, first part: the index of the cached instance
\* when active_agent_instance_id is set and still in the registry, else 0.
CachedInstance(instances, sess) ==
    IF sess.active_agent_instance_id # NoId
        THEN IndexOf(instances, sess.active_agent_instance_id)
        ELSE 0

\* Session.get_active_agent: [raised, instances, sess, agent]
GetActiveAgent(types, classes, instances, sess) ==
    IF sess.active_agent_id = None
        THEN [raised |-> TRUE, instances |-> instances, sess |-> sess, agent |-> NoAgent]
    ELSE IF CachedInstance(instances, sess) # 0
        THEN [raised |-> FALSE, instances |-> instances, sess |-> sess,
              agent |-> instances[CachedInstance(instances, sess)]]
    ELSE LET r == InstantiateAgent(types, classes, instances, sess.active_agent_id, NoId)
         IN  IF r.raised # None
                 THEN [raised |-> TRUE, instances |-> instances,
                       sess |-> [sess EXCEPT !.active_agent_instance_id = NoId],
                       agent |-> NoAgent]
                 ELSE [raised |-> FALSE, instances |-> r.instances,
                       sess |-> [sess EXCEPT !.active_agent_instance_id = r.ret],
                       agent |-> r.instances[IndexOf(r.instances, r.ret)]]

\* The reply of a handler: whether the call raised instead of returning,
\* and the keys 'message', 'error' and 'handoff' of the returned dict.
Reply(raised, has_message, has_error, handoff) ==
    [raised |-> raised, has_message |-> has_message, has_error |-> has_error,
     handoff |-> handoff]

NoHandoff == [from |-> None, to |-> None, reason |-> None]

HandoffInfo(from, to, reason) == [from |-> from, to |-> to, reason |-> reason]

Outcome(instances, sess, log, reply, trace) ==
    [instances |-> instances, sess |-> sess, log |-> log, reply |-> reply, trace |-> trace]

\* variant: a handoff_to in the reply of the target agent is followed
PerformHandoff_Chained(types, classes, instances, sess, log, target, reason, last_message, response) ==
    IF sess.active_agent_id = None
        THEN Outcome(instances, [sess EXCEPT !.active_agent_id = target], log,
                     Reply(FALSE, TRUE, FALSE, HandoffInfo(None, target, reason)), <<>>)
    ELSE
    LET h == InitiateHandoff(types, log, sess.active_agent_id, target, sess.session_id, reason,
                             sess.message_history, sess.data)
        sess1 == [sess EXCEPT !.active_agent_id = target]
        info == HandoffInfo(sess.active_agent_id, target, reason)
        ev == <<HandoffEvent(sess.active_agent_id, target)>>
    IN  IF h.raised # None
            THEN Outcome(instances, sess, log, Reply(TRUE, FALSE, FALSE, NoHandoff), <<>>)
        ELSE IF last_message = <<>>
            THEN Outcome(instances, sess1, h.log, Reply(FALSE, TRUE, FALSE, info), ev)
        ELSE
        LET g == GetActiveAgent(types, classes, instances, sess1)
        IN  IF g.raised
                THEN Outcome(g.instances, g.sess, h.log, Reply(FALSE, TRUE, TRUE, info), ev)
            ELSE IF response.raises
                THEN Outcome(g.instances, g.sess, h.log, Reply(FALSE, TRUE, TRUE, info),
                             Append(ev, ProcessEvent(g.agent, target, last_message, TRUE)))
            ELSE
            LET again == InitiateHandoff(types, h.log, target, response.handoff_to,
                                         sess.session_id, response.handoff_reason,
                                         g.sess.message_history, g.sess.data)
                follow == response.handoff_to # None /\ again.raised = None
            IN  Outcome(g.instances,
                        [g.sess EXCEPT !.active_agent_id =
                                           IF follow THEN response.handoff_to ELSE @,
                                       !.message_history =
                                           IF response.has_message
                                               THEN Append(@, AssistantEntry) ELSE @],
                        IF follow THEN again.log ELSE h.log,
                        Reply(FALSE, response.has_message, FALSE, info),
                        Append(ev, ProcessEvent(g.agent, target, last_message, TRUE))
                            \o (IF follow THEN <<HandoffEvent(target, response.handoff_to)>>
                                ELSE <<>>))

\* Session.perform_handoff.  response is what the target agent's
\* process_message does when it is given last_message.
PerformHandoff(types, classes, instances, sess, log, target, reason, last_message, response) ==
    IF sess.active_agent_id = None
        THEN Outcome(instances, [sess EXCEPT !.active_agent_id = target], log,
                     Reply(FALSE, TRUE, FALSE, HandoffInfo(None, target, reason)), <<>>)
    ELSE
    LET h == InitiateHandoff(types, log, sess.active_agent_id, target, sess.session_id, reason,
                             sess.message_history, sess.data)
        previous == sess.active_agent_id
        sess1 == [sess EXCEPT !.active_agent_id = target]
        info == HandoffInfo(previous, target, reason)
        ev == <<HandoffEvent(previous, target)>>
    IN  IF h.raised # None
            THEN Outcome(instances, sess, log, Reply(TRUE, FALSE, FALSE, NoHandoff), <<>>)
        ELSE IF last_message = <<>>
            THEN Outcome(instances, sess1, h.log, Reply(FALSE, TRUE, FALSE, info), ev)
        ELSE
        LET g == GetActiveAgent(types, classes, instances, sess1)
        IN  IF g.raised
                THEN Outcome(g.instances, g.sess, h.log, Reply(FALSE, TRUE, TRUE, info), ev)
            ELSE
            LET tr == Append(ev, ProcessEvent(g.agent, g.sess.active_agent_id,
                                              last_message, TRUE))
            IN  IF response.raises
                    THEN Outcome(g.instances, g.sess, h.log,
                                 Reply(FALSE, TRUE, TRUE, info), tr)
                    ELSE Outcome(g.instances,
                                 IF response.has_message
                                     THEN [g.sess EXCEPT !.message_history =
                                               Append(@, AssistantEntry)]
                                     ELSE g.sess,
                                 h.log,
                                 Reply(FALSE, response.has_message, FALSE, info), tr)


\* the context dict of handle_message: message, session_id, session_data and
\* message_history, then the keys of additional_context
MergeContext(message, additional_context) ==
    Context(TRUE,
            IF additional_context.has_message THEN additional_context.message ELSE message,
            additional_context.has_intents, additional_context.intents)

NoAdditionalContext == Context(FALSE, <<>>, FALSE, {})

\* variant: the triggers are not consulted before the active agent processes
HandoffBeforeProcessing_Never(e) == FALSE

\* "if should_handoff and target_agent_id": the handoff replaces the processing
HandoffBeforeProcessing(e) == e.should_handoff /\ e.target # None

\* Session.handle_message.  responses lists what the process_message calls
\* made by the handler do, in the order of the calls: the active agent's,
\* then, after a handoff that the agent requests, the target agent's.
HandleMessage(types, classes, instances, sess, log, message, additional_context, responses) ==
    IF sess.active_agent_id = None
        THEN Outcome(instances, sess, log, Reply(TRUE, FALSE, FALSE, NoHandoff), <<>>)
    ELSE
    LET context == MergeContext(message, additional_context)
        e == EvaluateHandoff(types, sess.active_agent_id, context)
        response1 == responses[1]
        response2 == responses[Len(responses)]
    IN  IF e.raised
            THEN Outcome(instances, sess, log, Reply(TRUE, FALSE, FALSE, NoHandoff), <<>>)
        ELSE IF HandoffBeforeProcessing(e)
            THEN PerformHandoff(types, classes, instances, sess, log,
                                e.target, e.reason, message, response1)
        ELSE
        LET g == GetActiveAgent(types, classes, instances, sess)
        IN  IF g.raised
                THEN Outcome(g.instances, g.sess, log,
                             Reply(TRUE, FALSE, FALSE, NoHandoff), <<>>)
            ELSE
            LET sess1 == [g.sess EXCEPT !.message_history = Append(@, UserEntry(message))]
                tr == <<ProcessEvent(g.agent, sess1.active_agent_id, message, FALSE)>>
                sess2 == IF response1.has_message
                             THEN [sess1 EXCEPT !.message_history = Append(@, AssistantEntry)]
                             ELSE sess1
            IN  IF response1.raises
                    THEN Outcome(g.instances, sess1, log,
                                 Reply(FALSE, TRUE, TRUE, NoHandoff), tr)
                ELSE IF response1.handoff_to # None
                    THEN LET p == PerformHandoff(types, classes, g.instances, sess2, log,
                                                 response1.handoff_to,
                                                 IF response1.handoff_reason # None
                                                     THEN response1.handoff_reason
                                                     ELSE "Agent requested handoff",
                                                 message, response2)
                         IN  IF p.reply.raised
                                 THEN Outcome(p.instances, p.sess, p.log,
                                              Reply(FALSE, TRUE, TRUE, NoHandoff), tr)
                                 ELSE Outcome(p.instances, p.sess, p.log, p.reply,
                                              tr \o p.trace)
                ELSE Outcome(g.instances, sess2, log,
                             Reply(FALSE, response1.has_message, FALSE, NoHandoff), tr)

-----------------------------------------------------------------------------
(* Session operations *)

CreateSession(s, initial_agent_id, initial_data) ==
    /\ session[s] = NoSession
    /\ session' = [session EXCEPT ![s] = NewSession(s, initial_agent_id, initial_data)]
    /\ lastCall' = [op |-> "Session", session_id |-> s]
    /\ UNCHANGED <<agentTypes, agentClasses, agentInstances, handoffHistory, orchVars, apiVars, heap>>

SetActiveAgent(s, agent_id) ==
    /\ session[s] # NoSession
    /\ IF Registered(agentTypes, agent_id)
           THEN session' = [session EXCEPT ![s].active_agent_id = agent_id,
                                           ![s].active_agent_instance_id = NoId]
           ELSE UNCHANGED session
    /\ lastCall' = [op |-> "set_active_agent", session_id |-> s, agent_id |-> agent_id,
                    ret |-> Registered(agentTypes, agent_id)]
    /\ UNCHANGED <<agentTypes, agentClasses, agentInstances, handoffHistory, orchVars, apiVars, heap>>

\* the target that evaluate_handoff decides on at the start of handle_message
\* (None: no handoff before processing, or no evaluation)
Decided(types, sess, message, additional_context) ==
    IF sess.active_agent_id = None THEN None
    ELSE EvaluateHandoff(types, sess.active_agent_id,
                         MergeContext(message, additional_context)).target

\* The record of a handler call: what it found (the active agent, the target
\* decided by the triggers), what it replied, the calls it made and the
\* number of HandoffContexts it appended.
CallRecord(op, s, target, decided, o) ==
    [op |-> op, session_id |-> s, target |-> target,
     before_active |-> session[s].active_agent_id, decided |-> decided,
     reply |-> o.reply, trace |-> o.trace,
     appended |-> Len(o.log) - Len(handoffHistory[s])]

HandleMessageCall(s, message, additional_context, responses) ==
    /\ session[s] # NoSession
    /\ \E o \in {HandleMessage(agentTypes, agentClasses, agentInstances, session[s],
                                handoffHistory[s], message, additional_context,
                                responses)} :
        /\ Len(o.instances) <= MaxInstances
        /\ Len(o.sess.message_history) <= MaxHistory
        /\ Len(o.log) <= MaxHandoffs
        /\ agentInstances' = o.instances
        /\ session' = [session EXCEPT ![s] = o.sess]
        /\ handoffHistory' = [handoffHistory EXCEPT ![s] = o.log]
        /\ lastCall' = CallRecord("handle_message", s, None,
                                  Decided(agentTypes, session[s], message,
                                          additional_context), o)
        /\ UNCHANGED <<agentTypes, agentClasses, orchVars, apiVars, heap>>

PerformHandoffCall(s, target, reason, last_message, response) ==
    /\ session[s] # NoSession
    /\ \E o \in {PerformHandoff(agentTypes, agentClasses, agentInstances, session[s],
                                 handoffHistory[s], target, reason, last_message,
                                 response)} :
        /\ Len(o.instances) <= MaxInstances
        /\ Len(o.sess.message_history) <= MaxHistory
        /\ Len(o.log) <= MaxHandoffs
        /\ agentInstances' = o.instances
        /\ session' = [session EXCEPT ![s] = o.sess]
        /\ handoffHistory' = [handoffHistory EXCEPT ![s] = o.log]
        /\ lastCall' = CallRecord("perform_handoff", s, target, None, o)
        /\ UNCHANGED <<agentTypes, agentClasses, orchVars, apiVars, heap>>

-----------------------------------------------------------------------------
(* State after construction: AgentRegistry.__init__, HandoffManager.__init__ *)

\* the conversations and the orchestrator calls that can be in progress
ConversationIds == {"conv1"}

RunIds == {"run1"}

\* no call in progress in this slot
NoRun == [pc |-> "idle"]

\* multi_agent AgentRegistry.__init__ and AgentOrchestrator.__init__
InitOrchestration ==
    /\ agents = <<>>
    /\ workflows = <<>>
    /\ activeWorkflows = <<>>
    /\ runs = [r \in RunIds |-> NoRun]

\* no message processed yet
Never == 0 - 1

\* the objects that the data of the sessions can refer to
ObjectIds == {"o1"}

InitApi ==
    /\ heap = [o \in ObjectIds |-> "v0"]
    /\ now = 0
    /\ lastActivity = <<>>
    /\ lastMessage = [s \in SessionIds |-> Never]

Init ==
    /\ agentTypes = [a \in AgentIds |-> NoMeta]
    /\ agentClasses = [a \in AgentIds |-> None]
    /\ agentInstances = <<>>
    /\ session = [s \in SessionIds |-> NoSession]
    /\ handoffHistory = [s \in SessionIds |-> <<>>]
    /\ lastCall = [op |-> "init"]
    /\ InitOrchestration
    /\ InitApi

-----------------------------------------------------------------------------
(* Registration and dependency validation: register_agent_type and          *)
(* unregister_agent_type over every requires list and trigger target.      *)

MaxRequires == 2

\* requires lists: the duplicate-free lists of at most MaxRequires agent ids
RequiresLists ==
    {r \in UNION {[1..n -> AgentIds] : n \in 0..MaxRequires} :
        \A i, j \in 1..Len(r) : i # j => r[i] # r[j]}

KeywordTrigger(target) == Trigger(target, "kw", 1, NoCond, <<"transfer">>, <<>>)

TriggerTargets ==
    {<<>>} \cup {<<t>> : t \in AgentIds} \cup {<<"b", "a">>, <<"c", "b">>, <<"a", "c">>}

RegTriggerLists ==
    {[i \in 1..Len(ts) |-> KeywordTrigger(ts[i])] : ts \in TriggerTargets}

\* every requires list without triggers, and every trigger list without requires
RegMetadata ==
    {Metadata(id, r, <<>>, TRUE) : id \in AgentIds, r \in RequiresLists}
        \cup {Metadata(id, <<>>, t, TRUE) : id \in AgentIds, t \in RegTriggerLists}

NextReg ==
    \/ \E m \in RegMetadata : RegisterAgentType(m, "Agent")
    \/ \E a \in AgentIds : UnregisterAgentType(a)

SpecReg == Init /\ [][NextReg]_vars

-----------------------------------------------------------------------------
(* Instance management: register (also re-register with changed metadata), *)
(* instantiate, remove, unregister.                                        *)

\* instance ids a caller passes in AgentConfig.instance_id; <<"a", 2>> is the
\* text that instantiate_agent generates itself for a second instance
ExplicitIds == {<<"x", 1>>, <<"a", 2>>}

\* the agent types of this scenario
InstAgentIds == {"a", "b"}

InstMetadata == {Metadata(id, <<>>, <<>>, sg) : id \in InstAgentIds, sg \in BOOLEAN}

NextInst ==
    \/ \E m \in InstMetadata, c \in Classes : RegisterAgentType(m, c)
    \/ \E a \in InstAgentIds : UnregisterAgentType(a)
    \/ \E a \in InstAgentIds, i \in {NoId} \cup ExplicitIds : InstantiateAgentCall(a, i)
    \/ \E i \in InstanceIds(agentInstances) \cup ExplicitIds : RemoveAgentInstance(i)

SpecInst == Init /\ [][NextInst]_vars


-----------------------------------------------------------------------------
(* Trigger evaluation: evaluate_handoff_triggers over registries in which   *)
(* agent "a" carries any list of at most MaxTriggers triggers.             *)

MaxTriggers == 3

EvalTriggers ==
    {Trigger("b", "d1", 1, NoCond, <<"transfer">>, <<>>),
     Trigger("c", "d2", 2, NoCond, <<"billing", BadPattern>>, <<>>),
     Trigger("c", "d3", 1, NoCond, <<>>, <<"cancel">>),
     Trigger("b", "d4", 2, "conds.missing", <<>>, <<>>),
     Trigger("c", "d5", 0, "conds.yes", <<>>, <<>>),
     Trigger("b", "d6", 2, "conds.no", <<"transfer">>, <<>>),
     Trigger("c", "d7", 2, NoCond, <<"Billing">>, <<"cancel">>),
     Trigger("b", "d8", 3, "conds.raises", <<"billing">>, <<>>)}

EvalTriggerLists == UNION {[1..n -> EvalTriggers] : n \in 0..MaxTriggers}

Messages == {<<"hello">>, <<"please", "transfer", "me">>, <<"TRANSFER", "billing">>}

EvalContexts ==
    {Context(hm, m, hi, {"cancel"}) : hm \in BOOLEAN, m \in Messages, hi \in BOOLEAN}

InitEval ==
    /\ \E t \in EvalTriggerLists :
           agentTypes = [a \in AgentIds |->
                            IF a = "a" THEN Metadata("a", <<>>, t, TRUE)
                            ELSE IF a = "b" THEN Metadata("b", <<>>, <<>>, TRUE)
                            ELSE NoMeta]
    /\ agentClasses = [a \in AgentIds |-> IF a = "c" THEN None ELSE "Agent"]
    /\ agentInstances = <<>>
    /\ session = [s \in SessionIds |-> NoSession]
    /\ handoffHistory = [s \in SessionIds |-> <<>>]
    /\ lastCall = [op |-> "init"]
    /\ InitOrchestration
    /\ InitApi

NextEval ==
    \E a \in AgentIds, c \in EvalContexts : EvaluateHandoffTriggersCall(a, c)

SpecEval == InitEval /\ [][NextEval]_vars


-----------------------------------------------------------------------------
(* Sessions and handoffs: one session over a registry of three agent types. *)
(*   a: singleton, hands off to b on the keyword "transfer"                *)
(*   b: singleton, no triggers                                             *)
(*   c: not singleton, a class whose constructor raises, and a keyword     *)
(*      pattern that does not compile                                      *)

SessRegistrations ==
    {<<Metadata("a", <<>>,
                <<Trigger("b", "d_transfer", 1, NoCond, <<"transfer">>, <<>>)>>, TRUE),
       "Agent">>,
     <<Metadata("b", <<>>, <<>>, TRUE), "Agent">>,
     <<Metadata("c", <<>>,
                <<Trigger("a", "d_bad", 1, NoCond, <<BadPattern>>, <<>>)>>, FALSE),
       "BrokenAgent">>}

SessMessages == {<<"hello">>, <<"please", "transfer", "me">>}

AdditionalContexts == {NoAdditionalContext, Context(TRUE, <<"hello">>, FALSE, {})}

\* the scenario chooses the agent of a session before its first exchange:
\* set_active_agent is called while the session has no history
AtStart(s) == session[s] # NoSession /\ session[s].message_history = <<>>

NextSess ==
    \/ \E r \in SessRegistrations : RegisterAgentType(r[1], r[2])
    \/ \E a \in {x \in AgentIds : Registered(agentTypes, x)} : UnregisterAgentType(a)
    \/ \E i \in InstanceIds(agentInstances) : RemoveAgentInstance(i)
    \/ \E s \in SessionIds, a \in AgentIds \cup {None} : CreateSession(s, a, NoData)
    \/ \E s \in SessionIds, a \in {x \in AgentIds : Registered(agentTypes, x)} :
          AtStart(s) /\ SetActiveAgent(s, a)
    \/ \E s \in SessionIds, m \in SessMessages, c \in AdditionalContexts,
          rs \in ResponseScripts : HandleMessageCall(s, m, c, rs)
    \/ \E s \in SessionIds, t \in AgentIds, m \in {<<>>, <<"hello">>},
          r \in Responses : PerformHandoffCall(s, t, "manual", m, r)

SpecSess == Init /\ [][NextSess]_vars


-----------------------------------------------------------------------------
(* Handoffs decided by triggers: one session whose active agent "a"        *)
(* carries any list of at most MaxTriggers triggers (InitEval).            *)

ReasonContexts == {NoAdditionalContext, Context(FALSE, <<>>, TRUE, {"cancel"})}

ReasonScripts == {<<Response(FALSE, TRUE, None, None)>>, <<Response(FALSE, FALSE, None, None)>>}

NextReason ==
    \/ \E s \in SessionIds : CreateSession(s, "a", NoData)
    \/ \E s \in SessionIds, m \in Messages, c \in ReasonContexts, rs \in ReasonScripts :
          HandleMessageCall(s, m, c, rs)

SpecReason == InitEval /\ [][NextReason]_vars

-----------------------------------------------------------------------------
(* The audit log and the data of a session: one session with initial data,  *)
(* whose data is changed between the calls by whoever holds it (the caller  *)
(* who passed initial_data, an agent given context["session_data"]).        *)

Str(v) == [str |-> v]

IsRef(value) == "ref" \in DOMAIN value

AuditData ==
    {NoData, [k \in {"email"} |-> Str("x")],
     [k \in {"email", "form"} |-> IF k = "form" THEN Ref("o1") ELSE Str("x")]}

AuditRegistrations == {r \in SessRegistrations : r[1].id \in {"a", "b"}}

AuditScripts ==
    {<<Response(FALSE, TRUE, None, None)>>,
     <<Response(FALSE, TRUE, "b", "agent_reason"), Response(FALSE, TRUE, None, None)>>}

\* session.data[key] = value
SetData(s, key, value) ==
    /\ session[s] # NoSession
    /\ session' = [session EXCEPT ![s].data =
                       [k \in DOMAIN @ \cup {key} |-> IF k = key THEN value ELSE @[k]]]
    /\ lastCall' = [op |-> "set_data", session_id |-> s, key |-> key]
    /\ UNCHANGED <<agentTypes, agentClasses, agentInstances, handoffHistory, orchVars,
                   apiVars, heap>>

\* session.data[key][...] = content: a value of the data changed in place
UpdateObject(s, key, content) ==
    /\ session[s] # NoSession
    /\ key \in DOMAIN session[s].data
    /\ IsRef(session[s].data[key])
    /\ heap' = [heap EXCEPT ![session[s].data[key].ref] = content]
    /\ lastCall' = [op |-> "update_object", session_id |-> s, key |-> key]
    /\ UNCHANGED <<agentTypes, agentClasses, agentInstances, session, handoffHistory,
                   orchVars, apiVars>>

NextAudit ==
    \/ \E r \in AuditRegistrations : RegisterAgentType(r[1], r[2])
    \/ \E s \in SessionIds, d \in AuditData : CreateSession(s, "a", d)
    \/ \E s \in SessionIds, m \in SessMessages, rs \in AuditScripts :
          HandleMessageCall(s, m, NoAdditionalContext, rs)
    \/ \E s \in SessionIds, t \in {"a", "b"} :
          PerformHandoffCall(s, t, "manual", <<>>, Response(FALSE, TRUE, None, None))
    \/ \E s \in SessionIds, v \in {Str("x"), Str("y"), Ref("o1")} : SetData(s, "email", v)
    \/ \E s \in SessionIds, k \in {"email", "form"}, c \in {"v0", "v1"} : UpdateObject(s, k, c)

SpecAudit == Init /\ [][NextAudit]_vars

-----------------------------------------------------------------------------
(* Properties of registration (SpecReg) *)

Range(list) == {list[i] : i \in 1..Len(list)}

\* the agent ids reachable from the set S along requires edges of registered types
RECURSIVE ReachableFrom(_, _, _)
ReachableFrom(types, S, n) ==
    IF n = 0 THEN S
    ELSE ReachableFrom(types,
                       S \cup UNION {Range(types[a].requires) :
                                        a \in {x \in S : Registered(types, x)}},
                       n - 1)

RequiresReachOwnId(types, metadata) ==
    metadata.id \in ReachableFrom(types, Range(metadata.requires), Cardinality(AgentIds))

TargetsItself(metadata) == metadata.id \in {t.target_agent_id : t \in Range(metadata.handoff_triggers)}

\* C8: register_agent_type raises the circular-dependency error exactly when
\* the new metadata's requires list reaches the new id through the requires
\* edges of the registered types; otherwise (and with no trigger targeting
\* the agent itself) the metadata is stored.
C8_CircularRequiresRejected ==
    [][lastCall'.op = "register_agent_type" =>
          LET m == lastCall'.metadata
          IN  /\ (lastCall'.raised = "circular_dependency") <=> RequiresReachOwnId(agentTypes, m)
              /\ (~RequiresReachOwnId(agentTypes, m) /\ ~TargetsItself(m)) =>
                     (lastCall'.raised = None /\ agentTypes'[m.id] = m)
              /\ lastCall'.raised # None => agentTypes' = agentTypes]_vars

\* a registration rejected for a cycle that closes through another registered type
C8_Witness ==
    /\ lastCall.op = "register_agent_type"
    /\ lastCall.raised = "circular_dependency"
    /\ lastCall.metadata.id \notin Range(lastCall.metadata.requires)

\* C9: in every reachable registry state the requires graph restricted to
\* the registered agent types has no cycle.
C9_RequiresAcyclic ==
    \A a \in AgentIds :
        Registered(agentTypes, a) =>
            a \notin ReachableFrom(agentTypes,
                                   {x \in Range(agentTypes[a].requires) : Registered(agentTypes, x)},
                                   Cardinality(AgentIds))

\* a type with dependencies accepted after a type that requires it, next to
\* a third registered type
C9_Witness ==
    /\ lastCall.op = "register_agent_type"
    /\ lastCall.raised = None
    /\ lastCall.metadata.requires # <<>>
    /\ \E a \in AgentIds \ {lastCall.metadata.id} :
           /\ Registered(agentTypes, a)
           /\ lastCall.metadata.id \in Range(agentTypes[a].requires)
    /\ \A a \in AgentIds : Registered(agentTypes, a)

\* C10: register_agent_type raises for metadata with a trigger targeting the
\* metadata's own id, and no registered type has a trigger targeting itself.
C10_NoSelfHandoff ==
    /\ \A a \in AgentIds : Registered(agentTypes, a) => ~TargetsItself(agentTypes[a])
    /\ (lastCall.op = "register_agent_type" /\ TargetsItself(lastCall.metadata)) =>
           lastCall.raised # None

\* a registration rejected for a self-targeting trigger that is not the first
C10_Witness ==
    /\ lastCall.op = "register_agent_type"
    /\ lastCall.raised = "self_handoff"
    /\ Len(lastCall.metadata.handoff_triggers) = 2
    /\ lastCall.metadata.handoff_triggers[1].target_agent_id # lastCall.metadata.id

-----------------------------------------------------------------------------
(* Properties of instance management (SpecInst) *)

\* C6: for a registered singleton type, a call of instantiate_agent that
\* follows a successful call with the same agent_id returns the same instance
\* id, whatever instance_id it carries, and constructs no instance.
C6_SingletonSameInstance ==
    [][(/\ lastCall.op = "instantiate_agent"
        /\ lastCall.raised = None
        /\ lastCall'.op = "instantiate_agent"
        /\ lastCall'.agent_id = lastCall.agent_id
        /\ Registered(agentTypes, lastCall.agent_id)
        /\ agentTypes[lastCall.agent_id].singleton)
       => (/\ lastCall'.raised = None
           /\ lastCall'.ret = lastCall.ret
           /\ agentInstances' = agentInstances)]_vars

\* a call carrying an explicit instance id answered with the existing
\* singleton instance
C6_Witness ==
    /\ lastCall.op = "instantiate_agent"
    /\ lastCall.raised = None
    /\ lastCall.instance_id # NoId
    /\ lastCall.ret # lastCall.instance_id
    /\ agentTypes[lastCall.agent_id].singleton
    /\ Cardinality(InstancesOf(agentInstances, lastCall.agent_id)) = 1

\* C7: every agent type whose current metadata is singleton has at most one
\* live instance.
C7_SingletonAtMostOneInstance ==
    \A a \in AgentIds :
        (Registered(agentTypes, a) /\ agentTypes[a].singleton) =>
            Cardinality(InstancesOf(agentInstances, a)) <= 1

-----------------------------------------------------------------------------
(* Properties of trigger evaluation (SpecEval) *)

\* the triggers of the evaluated agent that match the context of the last call
MatchingTriggers(triggers, context) ==
    {i \in 1..Len(triggers) : TriggerOutcome(triggers[i], context) = "match"}

\* the matching trigger of highest priority, the first registered among equals
BestMatch(triggers, context) ==
    CHOOSE i \in MatchingTriggers(triggers, context) :
        \A j \in MatchingTriggers(triggers, context) :
            \/ triggers[j].priority < triggers[i].priority
            \/ (triggers[j].priority = triggers[i].priority /\ i <= j)

\* C4: when evaluate_handoff_triggers returns, it returns the target of the
\* highest-priority trigger of the agent that matches the context, the first
\* registered among matching triggers of equal priority, and None when no
\* trigger matches.
C4_HighestPriorityMatchWins ==
    (lastCall.op = "evaluate_handoff_triggers" /\ ~lastCall.raised
        /\ Registered(agentTypes, lastCall.agent_id)) =>
        LET triggers == agentTypes[lastCall.agent_id].handoff_triggers
            matching == MatchingTriggers(triggers, lastCall.context)
        IN  IF matching = {} THEN lastCall.ret = None
            ELSE lastCall.ret = triggers[BestMatch(triggers, lastCall.context)].target_agent_id

\* a lower-priority trigger registered first and matching, overtaken by a
\* later one of higher priority with another target, with a tie among the
\* matching triggers
C4_Witness ==
    /\ lastCall.op = "evaluate_handoff_triggers"
    /\ ~lastCall.raised
    /\ Registered(agentTypes, lastCall.agent_id)
    /\ LET triggers == agentTypes[lastCall.agent_id].handoff_triggers
           matching == MatchingTriggers(triggers, lastCall.context)
       IN  /\ Cardinality(matching) = 3
           /\ 1 \in matching
           /\ lastCall.ret # triggers[1].target_agent_id
           /\ \E i, j \in matching : i # j /\ triggers[i].priority = triggers[j].priority

-----------------------------------------------------------------------------
(* Properties of sessions and handoffs (SpecSess) *)

Handlers == {"handle_message", "perform_handoff"}

ProcessEvents(trace) == {i \in 1..Len(trace) : trace[i].event = "process_message"}

\* C1: whenever a session invokes process_message on an agent instance, the
\* instance was created from the session's active_agent_id.
C1_ProcessedByActiveAgentType ==
    lastCall.op \in Handlers =>
        \A i \in ProcessEvents(lastCall.trace) :
            lastCall.trace[i].agent = lastCall.trace[i].active_agent_id

\* C2 as stated: perform_handoff without an active agent sets the active
\* agent and appends nothing; with an active agent it always appends exactly
\* one HandoffContext from the previous active agent to the target.
C2_AlwaysOneRecord ==
    lastCall.op = "perform_handoff" =>
        LET s == lastCall.session_id
            log == handoffHistory[s]
        IN  IF lastCall.before_active = None
                THEN session[s].active_agent_id = lastCall.target /\ lastCall.appended = 0
                ELSE /\ lastCall.appended = 1
                     /\ log[Len(log)].source_agent_id = lastCall.before_active
                     /\ log[Len(log)].target_agent_id = lastCall.target

\* C2 (amended): perform_handoff without an active agent sets the active
\* agent to the target and appends nothing; with an active agent it appends
\* exactly one HandoffContext (source the previous active agent, target the
\* requested target) and makes the target active when both agent types are
\* registered, and otherwise raises, appends nothing and leaves the active
\* agent as it was.
C2_OneRecordWhenRegistered ==
    lastCall.op = "perform_handoff" =>
        LET s == lastCall.session_id
            log == handoffHistory[s]
        IN  IF lastCall.before_active = None
                THEN /\ session[s].active_agent_id = lastCall.target
                     /\ lastCall.appended = 0
                     /\ ~lastCall.reply.raised
            ELSE IF Registered(agentTypes, lastCall.before_active)
                        /\ Registered(agentTypes, lastCall.target)
                THEN /\ lastCall.appended = 1
                     /\ log[Len(log)] = HandoffContext(lastCall.before_active, lastCall.target,
                                                       s, lastCall.reply.handoff.reason,
                                                       log[Len(log)].message_history,
                                                       log[Len(log)].collected_data)
                     /\ session[s].active_agent_id = lastCall.target
                     /\ ~lastCall.reply.raised
            ELSE /\ lastCall.appended = 0
                 /\ lastCall.reply.raised
                 /\ session[s].active_agent_id = lastCall.before_active

\* a handoff from an active agent that was recorded and whose last message
\* the handler passed on
C2_Witness ==
    /\ lastCall.op = "perform_handoff"
    /\ lastCall.before_active # None
    /\ lastCall.before_active # lastCall.target
    /\ lastCall.appended = 1
    /\ ProcessEvents(lastCall.trace) # {}

C5_HandleMessageNeverRaises ==
    (lastCall.op = "handle_message" /\ lastCall.before_active # None) =>
        ~lastCall.reply.raised

-----------------------------------------------------------------------------
(* Construction of a HandoffTrigger: the pydantic validators of the model.  *)
(* pydantic validates the fields in declaration order, runs a validator     *)
(* (declared without always=True) only for a field the caller supplied, and *)
(* hands it in `values` the fields validated before it.                     *)

\* a constructor argument: supplied with a value, or left to its default
Supplied(value) == [given |-> TRUE, value |-> value]

Defaulted(default) == [given |-> FALSE, value |-> default]

\* Python truth of an Optional[str] and of an Optional[List[str]]
TruthyStr(v) == v \notin {None, ""}

TruthyList(v) == v # <<>>

\* the condition fields found in `values`: a field not validated yet is absent
Values(condition_function, keyword_patterns, intent_names) ==
    [condition_function |-> condition_function, keyword_patterns |-> keyword_patterns,
     intent_names |-> intent_names]

\* HandoffTrigger.validate_trigger_condition(cls, v, values): TRUE when it raises
ValidateTriggerCondition(v, values) ==
    ~TruthyStr(values.condition_function) /\ ~TruthyList(values.keyword_patterns)
        /\ ~TruthyList(values.intent_names)

\* HandoffTrigger.validate_priority: TRUE when it raises
ValidatePriority(v) == v < 0

\* HandoffTrigger(...): [raised, trigger]; raised names the validators that
\* raised ("priority", "condition", "both") or is None
NewHandoffTrigger(target, description, priority, condition_function, keyword_patterns, intent_names) ==
    LET bad_priority == priority.given /\ ValidatePriority(priority.value)
        bad_cf == condition_function.given
                     /\ ValidateTriggerCondition(condition_function.value,
                                                 Values(None, <<>>, <<>>))
        cf == IF bad_cf THEN None ELSE condition_function.value
        bad_kw == keyword_patterns.given
                     /\ ValidateTriggerCondition(keyword_patterns.value,
                                                 Values(cf, <<>>, <<>>))
        kw == IF bad_kw THEN <<>> ELSE keyword_patterns.value
        bad_in == intent_names.given
                     /\ ValidateTriggerCondition(intent_names.value,
                                                 Values(cf, kw, <<>>))
        bad_condition == bad_cf \/ bad_kw \/ bad_in
    IN  [raised |-> IF bad_priority /\ bad_condition THEN "both"
                    ELSE IF bad_priority THEN "priority"
                    ELSE IF bad_condition THEN "condition"
                    ELSE None,
         trigger |-> Trigger(target, description, priority.value, condition_function.value,
                             keyword_patterns.value, intent_names.value)]

NewHandoffTriggerCall(target, priority, condition_function, keyword_patterns, intent_names) ==
    LET r == NewHandoffTrigger(target, "d", priority, condition_function, keyword_patterns,
                               intent_names)
    IN  /\ lastCall' = [op |-> "HandoffTrigger", raised |-> r.raised, ret |-> r.trigger,
                        priority |-> priority,
                        specified |-> \/ TruthyStr(condition_function.value)
                                      \/ TruthyList(keyword_patterns.value)
                                      \/ TruthyList(intent_names.value)]
        /\ UNCHANGED <<agentTypes, agentClasses, agentInstances, session, handoffHistory,
                       orchVars, apiVars, heap>>

\* the arguments tried for each field
PriorityArgs == {Defaulted(1), Supplied(0), Supplied(2), Supplied(-1)}

ConditionFunctionArgs == {Defaulted(None), Supplied(""), Supplied("conds.yes")}

KeywordPatternsArgs == {Defaulted(<<>>), Supplied(<<>>), Supplied(<<"transfer">>)}

IntentNamesArgs == {Defaulted(<<>>), Supplied(<<>>), Supplied(<<"cancel">>)}

\* construct a trigger, or register an agent type with the trigger just built
NextTrig ==
    \/ \E t \in AgentIds, p \in PriorityArgs, cf \in ConditionFunctionArgs,
          kw \in KeywordPatternsArgs, i \in IntentNamesArgs :
              NewHandoffTriggerCall(t, p, cf, kw, i)
    \/ /\ lastCall.op = "HandoffTrigger"
       /\ lastCall.raised = None
       /\ RegisterAgentType(Metadata("a", <<>>, <<lastCall.ret>>, TRUE), "Agent")

SpecTrig == Init /\ [][NextTrig]_vars

\* C11: a HandoffTrigger built without condition_function, keyword_patterns
\* and intent_names is rejected (at construction, or when its agent type is
\* registered), and one built with one of them is accepted.
C11_TriggerNeedsCondition ==
    /\ (lastCall.op = "HandoffTrigger" /\ lastCall.raised \notin {"priority", "both"}) =>
           (lastCall.raised = None <=> lastCall.specified)
    /\ lastCall.op = "register_agent_type" =>
           \A i \in 1..Len(lastCall.metadata.handoff_triggers) :
               LET t == lastCall.metadata.handoff_triggers[i]
               IN  lastCall.raised = None =>
                       \/ TruthyStr(t.condition_function)
                       \/ TruthyList(t.keyword_patterns)
                       \/ TruthyList(t.intent_names)

-----------------------------------------------------------------------------
(* multi_agent: AgentContext and Agent (core/agent_interface.py)            *)

\* AgentContext.__init__: metadata is the set of the metadata keys set to a
\* true value; the other collections start empty
NewAgentContext(conversation_id, metadata) ==
    [conversation_id |-> conversation_id, metadata |-> metadata,
     short_term_memory |-> <<>>, results |-> <<>>, citations |-> <<>>,
     errors |-> <<>>]

\* AgentContext.update_memory
UpdateMemory(context, entry) ==
    [context EXCEPT !.short_term_memory = Append(@, entry)]

\* AgentContext.set_result: results[key] = value
SetResult(context, key, value) ==
    [context EXCEPT !.results = (key :> value) @@ @]

\* AgentContext.add_citation: the id is the position in this context's list
AddCitation(context, source) ==
    [context EXCEPT !.citations =
        Append(@, [id |-> Len(context.citations) + 1, source |-> source])]

\* variant: the error is logged and not recorded
AddError_LoggedOnly(context, agent_id, error_message) == context

\* AgentContext.add_error
AddError(context, agent_id, error_message) ==
    [context EXCEPT !.errors =
        Append(@, [agent_id |-> agent_id, error_message |-> error_message])]

\* context.metadata[key] = True
SetMetadata(context, key) == [context EXCEPT !.metadata = @ \cup {key}]

\* An Agent object with the behaviour of its three coroutines:
\*   can_handle   "yes", "no", "raise", or "if_citations" (true when the
\*                context holds a citation),
\*   process      what it writes to the context it is given, and whether it
\*                raises after writing,
\*   handle_error "default" (Agent.handle_error) or "raise".
Agent(agent_id, role, can_handle, process, handle_error) ==
    [agent_id |-> agent_id, role |-> role, can_handle |-> can_handle,
     process |-> process, handle_error |-> handle_error]

\* the writes of a process: a result under result_key (a key is the sequence
\* of the parts that "_" separates; <<>>: no result), that many citations, a
\* memory entry, the terminate_workflow flag
Writes(result_key, citations, memory, terminate, raises) ==
    [result_key |-> result_key, citations |-> citations, memory |-> memory,
     terminate |-> terminate, raises |-> raises]

\* a process that also sets the metadata key to a true value
Signalling(writes, key) == [signal |-> key] @@ writes

\* agent.can_handle(context): "true", "false" or "raise"
CanHandle(agent, context) ==
    IF agent.can_handle = "yes" THEN "true"
    ELSE IF agent.can_handle = "no" THEN "false"
    ELSE IF agent.can_handle = "if_citations"
        THEN IF context.citations # <<>> THEN "true" ELSE "false"
    ELSE "raise"

RECURSIVE AddCitations(_, _, _)
AddCitations(context, source, n) ==
    IF n = 0 THEN context
    ELSE AddCitations(AddCitation(context, source), source, n - 1)

\* agent.process(context): the agent writes to the context it was given and
\* returns that context, or raises after writing: [raised, context]
Process(agent, context) ==
    LET w == agent.process
        c1 == IF w.result_key = <<>> THEN context
              ELSE SetResult(context, w.result_key, agent.agent_id)
        c2 == AddCitations(c1, agent.agent_id, w.citations)
        c3 == IF w.memory THEN UpdateMemory(c2, agent.agent_id) ELSE c2
        c4 == IF w.terminate THEN SetMetadata(c3, "terminate_workflow") ELSE c3
        c5 == IF "signal" \in DOMAIN w THEN SetMetadata(c4, w.signal) ELSE c4
    IN  [raised |-> w.raises, context |-> c5]

\* agent.handle_error(context, error): [raised, context]
HandleError(agent, context) ==
    IF agent.handle_error = "default"
        THEN [raised |-> FALSE, context |-> AddError(context, agent.agent_id, "error_in_agent")]
        ELSE [raised |-> TRUE, context |-> context]

-----------------------------------------------------------------------------
(* AgentOrchestrator.execute_single_agent                                   *)

\* what a call did: the context it returns, whether it is over, whether
\* process was called, and the execution_history entries it appended
Executed(context, done, processed, history) ==
    [context |-> context, done |-> done, processed |-> processed, history |-> history]

HistoryEntry(agent, success) == [agent_id |-> agent.agent_id, success |-> success]

\* variant: a failure of handle_error is logged and not recorded
Failed_HandlerFailureLost(agent, context, processed) ==
    Executed(HandleError(agent, context).context, TRUE, processed,
             <<HistoryEntry(agent, FALSE)>>)

\* the except branch: a failure entry, then agent.handle_error, whose own
\* failure is recorded on the context
Failed(agent, context, processed) ==
    LET h == HandleError(agent, context)
    IN  Executed(IF h.raised
                     THEN AddError(context, agent.agent_id, "failed_and_handler_failed")
                     ELSE h.context,
                 TRUE, processed, <<HistoryEntry(agent, FALSE)>>)

\* variant: the answer of can_handle is not looked at
AfterCanHandle_Ignored(agent, context) == Executed(context, FALSE, FALSE, <<>>)

\* up to the return of can_handle
AfterCanHandle(agent, context) ==
    LET ch == CanHandle(agent, context)
    IN  IF ch = "false"
            THEN Executed(AddError(context, agent.agent_id, "refused"), TRUE, FALSE, <<>>)
        ELSE IF ch = "raise" THEN Failed(agent, context, FALSE)
        ELSE Executed(context, FALSE, FALSE, <<>>)

\* variant: the context that process returns is dropped
AfterProcess_Dropped(agent, context) ==
    Executed(context, TRUE, TRUE, <<HistoryEntry(agent, TRUE)>>)

\* from the call of process to the return
AfterProcess(agent, context) ==
    LET p == Process(agent, context)
    IN  IF p.raised THEN Failed(agent, p.context, TRUE)
        ELSE Executed(p.context, TRUE, TRUE, <<HistoryEntry(agent, TRUE)>>)

ExecuteSingleAgent(agent, context) ==
    LET c == AfterCanHandle(agent, context)
    IN  IF c.done THEN c ELSE AfterProcess(agent, c.context)

-----------------------------------------------------------------------------
(* AgentOrchestrator.execute_agents and execute_workflow.  A call runs as a *)
(* coroutine: `runs` holds, per call, where it stands (pc), its context and  *)
(* the tasks of a parallel step, with a record of what it has done (before,  *)
(* trace, completion, history: the execution_history entries it appended).   *)
(* An action runs a coroutine from one await to the next.                    *)

\* a workflow step: step["agents"], step["parallel"], step["is_terminal"]
Step(agent_ids, parallel, is_terminal) ==
    [agents |-> agent_ids, parallel |-> parallel, is_terminal |-> is_terminal]

\* an entry of a call's trace: execute_agents called for a step, an agent
\* executed (was process called, and did it ask for termination), a merge,
\* the return of execute_agents to the workflow (does the metadata of the
\* context request termination)
Event(event, step, agent_id, processed, terminate) ==
    [event |-> event, step |-> step, agent_id |-> agent_id, processed |-> processed,
     terminate |-> terminate]

NewRun(kind, workflow_id, steps, context) ==
    [pc |-> "start", kind |-> kind, workflow_id |-> workflow_id, steps |-> steps,
     i |-> 1, context |-> context, resolved |-> <<>>, queue |-> <<>>, tasks |-> <<>>,
     completion |-> <<>>, before |-> context, trace |-> <<>>, history |-> <<>>,
     status |-> "running"]

\* a coroutine and the active_workflows dict it works on
Orch(run, active) == [run |-> run, active |-> active]

\* dict.pop(key, None)
Pop2(dict, key) == [k \in DOMAIN dict \ {key} |-> dict[k]]

\* variant: ids that are not found are dropped without an error
RECURSIVE ResolveAgents_Silent(_, _, _, _, _)
ResolveAgents_Silent(registry, agent_ids, i, found, context) ==
    IF i > Len(agent_ids) THEN [agents |-> found, context |-> context]
    ELSE ResolveAgents_Silent(registry, agent_ids, i + 1,
                              IF agent_ids[i] \in DOMAIN registry
                                  THEN Append(found, registry[agent_ids[i]])
                                  ELSE found,
                              context)

\* the resolution loop of execute_agents: the agents found, in the order of
\* the ids, and the context with an error for every id not found
RECURSIVE ResolveAgents(_, _, _, _, _)
ResolveAgents(registry, agent_ids, i, found, context) ==
    IF i > Len(agent_ids) THEN [agents |-> found, context |-> context]
    ELSE IF agent_ids[i] \in DOMAIN registry
        THEN ResolveAgents(registry, agent_ids, i + 1,
                           Append(found, registry[agent_ids[i]]), context)
    ELSE ResolveAgents(registry, agent_ids, i + 1, found,
                       AddError(context, "orchestrator", "agent_not_found"))

\* the context copy a parallel task works on: query, conversation id, a copy
\* of the metadata and of the memory list; results, citations and errors empty
AgentContextCopy(context) ==
    [NewAgentContext(context.conversation_id, context.metadata)
        EXCEPT !.short_term_memory = context.short_term_memory]

Task(agent, context) == [agent |-> agent, context |-> context, pc |-> "created"]

\* variant: the run stays in active_workflows
Finish_Tracked(o, status) ==
    Orch([o.run EXCEPT !.pc = "returned", !.status = status,
                       !.context = SetMetadata(@, "completed_workflow")],
         o.active)

\* the end of execute_workflow: the run leaves active_workflows and the
\* context is marked completed
Finish(o, status) ==
    Orch([o.run EXCEPT !.pc = "returned", !.status = status,
                       !.context = SetMetadata(@, "completed_workflow")],
         Pop2(o.active, o.run.context.conversation_id))

\* variant: only the metadata of the context ends the workflow
Terminates_MetadataOnly(step, context) == "terminate_workflow" \in context.metadata

\* the termination condition checked after a step
Terminates(step, context) ==
    step.is_terminal \/ "terminate_workflow" \in context.metadata

RECURSIVE EnterStep(_, _)
RECURSIVE AfterStep(_, _)

\* the start of step i: execute_agents up to its first await, or the end of
\* the workflow when the steps are exhausted
EnterStep(registry, o) ==
    IF o.run.i > Len(o.run.steps) THEN Finish(o, "completed")
    ELSE
    LET step == o.run.steps[o.run.i]
        run1 == [o.run EXCEPT !.trace = Append(@, Event("execute_agents", o.run.i, None, FALSE, FALSE))]
        res == ResolveAgents(registry, step.agents, 1, <<>>, run1.context)
        run2 == [run1 EXCEPT !.context = res.context, !.resolved = res.agents]
    IN  IF step.agents = <<>> THEN AfterStep(registry, Orch(run1, o.active))
        ELSE IF res.agents = <<>> THEN AfterStep(registry, Orch(run2, o.active))
        ELSE IF ~step.parallel
            THEN Orch([run2 EXCEPT !.pc = "sequential", !.queue = res.agents], o.active)
        ELSE Orch([run2 EXCEPT !.pc = "parallel",
                               !.tasks = [t \in 1..Len(res.agents) |->
                                             Task(res.agents[t], AgentContextCopy(res.context))],
                               !.completion = <<>>],
                  o.active)

\* the return of execute_agents: a direct call returns; a workflow updates
\* its progress, checks the termination condition and goes on
AfterStep(registry, o) ==
    IF o.run.kind = "execute_agents"
        THEN Orch([o.run EXCEPT !.pc = "returned", !.status = "returned"], o.active)
    ELSE
    LET conv == o.run.context.conversation_id
        active1 == IF conv \in DOMAIN o.active
                       THEN [o.active EXCEPT ![conv].steps_completed = o.run.i]
                       ELSE o.active
        run1 == [o.run EXCEPT !.trace =
                    Append(@, Event("after_step", o.run.i, None, FALSE,
                                    "terminate_workflow" \in o.run.context.metadata))]
    IN  IF Terminates(run1.steps[run1.i], run1.context)
            THEN Finish(Orch(run1, active1), "terminated")
            ELSE EnterStep(registry, Orch([run1 EXCEPT !.i = @ + 1], active1))

\* one agent of a sequential step: execute_single_agent on the shared context
SequentialAgentStep(registry, o) ==
    LET agent == Head(o.run.queue)
        e == ExecuteSingleAgent(agent, o.run.context)
        run1 == [o.run EXCEPT !.context = e.context, !.queue = Tail(@),
                              !.history = @ \o e.history,
                              !.trace = Append(@, Event("agent", o.run.i, agent.agent_id,
                                                        e.processed,
                                                        e.processed /\ agent.process.terminate))]
    IN  IF run1.queue = <<>> THEN AfterStep(registry, Orch(run1, o.active))
        ELSE Orch(run1, o.active)

\* a task of a parallel step runs to its next await: can_handle, then process
TaskStep(run, t) ==
    LET task == run.tasks[t]
        e == IF task.pc = "created" THEN AfterCanHandle(task.agent, task.context)
             ELSE AfterProcess(task.agent, task.context)
    IN  [run EXCEPT !.tasks[t].context = e.context,
                    !.tasks[t].pc = IF e.done THEN "done" ELSE "checked",
                    !.history = @ \o e.history,
                    !.completion = IF e.done THEN Append(@, t) ELSE @,
                    !.trace = IF e.done
                                  THEN Append(@, Event("agent", run.i, task.agent.agent_id,
                                                       e.processed,
                                                       e.processed /\ task.agent.process.terminate))
                                  ELSE @]

\* the key under which a result of a task is merged: f"{agent_id}_{key}"
PrefixedKey(agent_id, key) == <<agent_id>> \o key

\* the merge of one task's context into the original context
MergeContexts(context, agent, agent_context) ==
    [context EXCEPT
        !.short_term_memory = @ \o agent_context.short_term_memory,
        !.results = [k \in {PrefixedKey(agent.agent_id, key) : key \in DOMAIN agent_context.results}
                        |-> agent_context.results[Tail(k)]] @@ @,
        !.citations = @ \o agent_context.citations,
        !.errors = @ \o agent_context.errors]

\* variant: the tasks are merged in the order in which they completed
MergeOrder_Completion(tasks, completion) == completion

\* the tasks are awaited, and then merged, in the order of the agent list
MergeOrder(tasks, completion) == [t \in 1..Len(tasks) |-> t]

RECURSIVE MergeAll(_, _, _, _)
MergeAll(context, tasks, order, n) ==
    IF n > Len(order) THEN context
    ELSE MergeAll(MergeContexts(context, tasks[order[n]].agent, tasks[order[n]].context),
                  tasks, order, n + 1)

\* variant: the orchestrator goes on as soon as the first task is over
AllTasksDone_FirstOnly(tasks) == tasks[1].pc = "done"

\* every task of the step has been awaited
AllTasksDone(tasks) == \A t \in 1..Len(tasks) : tasks[t].pc = "done"

\* the merge that follows the last await of a parallel step
MergeStep(registry, o) ==
    LET merged == MergeAll(o.run.context, o.run.tasks,
                           MergeOrder(o.run.tasks, o.run.completion), 1)
        run1 == [o.run EXCEPT !.context = merged,
                              !.trace = Append(@, Event("merge", o.run.i, None, FALSE, FALSE))]
    IN  AfterStep(registry, Orch(run1, o.active))

-----------------------------------------------------------------------------
(* Operations of the multi-agent registry and orchestrator *)

backendVars == <<agentTypes, agentClasses, agentInstances, session, handoffHistory, lastCall>>

\* multi_agent AgentRegistry.register_agent (overwrites)
RegisterAgent(agent) ==
    /\ agents' = (agent.agent_id :> agent) @@ agents
    /\ UNCHANGED <<workflows, activeWorkflows, runs, backendVars, apiVars, heap>>

\* multi_agent AgentRegistry.unregister_agent
UnregisterAgent(agent_id) ==
    /\ agents' = Pop2(agents, agent_id)
    /\ UNCHANGED <<workflows, activeWorkflows, runs, backendVars, apiVars, heap>>

\* multi_agent AgentRegistry.register_workflow: the unknown agents of a step
\* are logged, the workflow is stored
RegisterWorkflow(workflow_id, steps) ==
    /\ workflows' = (workflow_id :> [id |-> workflow_id, steps |-> steps]) @@ workflows
    /\ UNCHANGED <<agents, activeWorkflows, runs, backendVars, apiVars, heap>>

\* a slot in which a new call can start
Free(r) == runs[r].pc \in {"idle", "returned"}

\* execute_workflow(workflow_id, context), up to its first await
ExecuteWorkflowCall(r, workflow_id, context) ==
    /\ Free(r)
    /\ IF workflow_id \notin DOMAIN workflows
           THEN /\ runs' = [runs EXCEPT ![r] =
                       [NewRun("execute_workflow", workflow_id, <<>>, context)
                           EXCEPT !.pc = "returned", !.status = "not_found",
                                  !.context = AddError(context, "orchestrator",
                                                       "workflow_not_found")]]
                /\ UNCHANGED activeWorkflows
           ELSE \E o \in {EnterStep(agents,
                            Orch(NewRun("execute_workflow", workflow_id,
                                        workflows[workflow_id].steps, context),
                                 (context.conversation_id :>
                                     [workflow_id |-> workflow_id, steps_completed |-> 0,
                                      steps_total |-> Len(workflows[workflow_id].steps)])
                                   @@ activeWorkflows))} :
                    /\ runs' = [runs EXCEPT ![r] = o.run]
                    /\ activeWorkflows' = o.active
    /\ UNCHANGED <<agents, workflows, backendVars, apiVars, heap>>

\* execute_agents(agent_ids, context, sequential), up to its first await
ExecuteAgentsCall(r, agent_ids, context, sequential) ==
    /\ Free(r)
    /\ \E o \in {EnterStep(agents,
                   Orch(NewRun("execute_agents", None,
                               <<Step(agent_ids, ~sequential, FALSE)>>, context),
                        activeWorkflows))} :
           /\ runs' = [runs EXCEPT ![r] = o.run]
           /\ activeWorkflows' = o.active
    /\ UNCHANGED <<agents, workflows, backendVars, apiVars, heap>>

\* execute_single_agent(agent, context), called on its own
ExecuteSingleAgentCall(r, agent, context) ==
    /\ Free(r)
    /\ \E e \in {ExecuteSingleAgent(agent, context)} :
           runs' = [runs EXCEPT ![r] =
               [NewRun("execute_single_agent", None, <<>>, context)
                   EXCEPT !.pc = "returned", !.status = "returned",
                          !.context = e.context, !.history = e.history,
                          !.trace = <<Event("agent", 1, agent.agent_id, e.processed,
                                            e.processed /\ agent.process.terminate)>>]]
    /\ UNCHANGED <<agents, workflows, activeWorkflows, backendVars, apiVars, heap>>

\* the coroutine of call r executes the next agent of its sequential step
RunSequentialAgent(r) ==
    /\ runs[r].pc = "sequential"
    /\ \E o \in {SequentialAgentStep(agents, Orch(runs[r], activeWorkflows))} :
           /\ runs' = [runs EXCEPT ![r] = o.run]
           /\ activeWorkflows' = o.active
    /\ UNCHANGED <<agents, workflows, backendVars, apiVars, heap>>

\* task t of the parallel step of call r runs to its next await
RunTask(r, t) ==
    /\ runs[r].pc = "parallel"
    /\ t \in 1..Len(runs[r].tasks)
    /\ runs[r].tasks[t].pc # "done"
    /\ runs' = [runs EXCEPT ![r] = TaskStep(runs[r], t)]
    /\ UNCHANGED <<agents, workflows, activeWorkflows, backendVars, apiVars, heap>>

\* all tasks awaited: the coroutine of call r merges and goes on
RunMerge(r) ==
    /\ runs[r].pc = "parallel"
    /\ AllTasksDone(runs[r].tasks)
    /\ \E o \in {MergeStep(agents, Orch(runs[r], activeWorkflows))} :
           /\ runs' = [runs EXCEPT ![r] = o.run]
           /\ activeWorkflows' = o.active
    /\ UNCHANGED <<agents, workflows, backendVars, apiVars, heap>>

-----------------------------------------------------------------------------
(* The agents, contexts and workflows of the scenarios *)

\* w1 gathers (a result, a citation, a memory entry); w2 answers and asks
\* for termination; w3 needs citations in the context; w4 fails half way
AgentW1 == Agent("w1", "research", "yes", Writes(<<"out">>, 1, TRUE, FALSE, FALSE), "default")

AgentW2 == Agent("w2", "response", "yes", Writes(<<"out">>, 1, FALSE, TRUE, FALSE), "default")

AgentW3 == Agent("w3", "synthesis", "if_citations", Writes(<<"sum">>, 0, TRUE, FALSE, FALSE), "default")

AgentW4 == Agent("w4", "reasoning", "yes", Writes(<<"part">>, 0, FALSE, FALSE, TRUE), "default")

WorkerIds == {"w1", "w2", "w3", "w4"}

\* a new context, and one that already holds a result, a citation and a
\* memory entry
FreshContext == NewAgentContext("conv1", {})

SeededContext ==
    UpdateMemory(AddCitation(SetResult(FreshContext, <<"seed">>, "old"), "seed"), "seed")

InitialContexts == {FreshContext, SeededContext}

-----------------------------------------------------------------------------
(* execute_agents and execute_single_agent on a changing registry *)

AgentCatalogue == {AgentW1, AgentW2, AgentW3, AgentW4}

MaxAgents == 2

\* the agent id lists of at most MaxAgents ids
AgentIdLists == UNION {[1..n -> WorkerIds] : n \in 0..MaxAgents}

NextAgents ==
    \/ \E a \in AgentCatalogue : RegisterAgent(a)
    \/ \E id \in DOMAIN agents : UnregisterAgent(id)
    \/ \E r \in RunIds, ids \in AgentIdLists, c \in InitialContexts, sq \in BOOLEAN :
          ExecuteAgentsCall(r, ids, c, sq)
    \/ \E r \in RunIds, a \in AgentCatalogue, c \in InitialContexts :
          ExecuteSingleAgentCall(r, a, c)
    \/ \E r \in RunIds : RunSequentialAgent(r)
    \/ \E r \in RunIds, t \in 1..MaxAgents : RunTask(r, t)
    \/ \E r \in RunIds : RunMerge(r)

SpecAgents == Init /\ [][NextAgents]_vars

-----------------------------------------------------------------------------
(* Properties of execute_agents and execute_single_agent (SpecAgents) *)

\* a call of execute_agents that has returned
ReturnedAgentsCall(r, parallel) ==
    /\ runs[r].pc = "returned"
    /\ runs[r].kind = "execute_agents"
    /\ runs[r].steps[1].parallel = parallel

\* the citations of the task copies, in the order of the agent list
RECURSIVE CitationsOfTasks(_, _)
CitationsOfTasks(tasks, n) ==
    IF n > Len(tasks) THEN <<>>
    ELSE tasks[n].context.citations \o CitationsOfTasks(tasks, n + 1)

\* C12: after a parallel execute_agents the citations added to the original
\* context are those of the first agent's copy, then the second's, ..., in
\* the order of the agent list, whatever the order in which the tasks ended.
C12_CitationsInListOrder ==
    \A r \in RunIds :
        (ReturnedAgentsCall(r, TRUE) /\ runs[r].tasks # <<>>) =>
            runs[r].context.citations =
                runs[r].before.citations \o CitationsOfTasks(runs[r].tasks, 1)

\* two agents that both cite, the second finished first
C12_Witness ==
    \E r \in RunIds :
        /\ ReturnedAgentsCall(r, TRUE)
        /\ Len(runs[r].tasks) = 2
        /\ runs[r].completion = <<2, 1>>
        /\ runs[r].tasks[1].agent.agent_id # runs[r].tasks[2].agent.agent_id
        /\ runs[r].tasks[1].context.citations # <<>>
        /\ runs[r].tasks[2].context.citations # <<>>

\* C13: while a task of a parallel step is not over, a step of the system
\* changes the context copy of at most one task, leaves the original context
\* as it is and does not let the orchestrator go on.
C13_NoPartialMerge ==
    [][\A r \in RunIds :
          (/\ runs[r].pc = "parallel"
           /\ \E t \in 1..Len(runs[r].tasks) : runs[r].tasks[t].pc # "done") =>
              /\ runs'[r].pc = "parallel"
              /\ runs'[r].context = runs[r].context
              /\ Len(runs'[r].tasks) = Len(runs[r].tasks)
              /\ Cardinality({t \in 1..Len(runs[r].tasks) :
                                 runs'[r].tasks[t] # runs[r].tasks[t]}) <= 1]_vars

\* one task is over and has written to its copy, another is still running,
\* and the original context holds nothing of it
C13_Witness ==
    \E r \in RunIds :
        /\ runs[r].pc = "parallel"
        /\ \E t, u \in 1..Len(runs[r].tasks) :
               /\ runs[r].tasks[t].pc = "done"
               /\ runs[r].tasks[t].context.citations # <<>>
               /\ runs[r].tasks[t].context.results # <<>>
               /\ runs[r].tasks[u].pc # "done"
        /\ runs[r].context.citations = runs[r].before.citations
        /\ runs[r].context.results = runs[r].before.results

\* each agent's process invoked directly, in list order, on one context
RECURSIVE DirectProcess(_, _, _)
DirectProcess(agent_list, context, n) ==
    IF n > Len(agent_list) THEN context
    ELSE DirectProcess(agent_list, Process(agent_list[n], context).context, n + 1)

\* every id of the list was registered when the call resolved it
AllRegistered(run) == Len(run.resolved) = Len(run.steps[1].agents)

\* every agent of the call accepted the context and completed process
AllProcessed(run) ==
    /\ Len(run.history) = Len(run.resolved)
    /\ \A n \in 1..Len(run.history) : run.history[n].success

RECURSIVE ExecutedAgents(_)
ExecutedAgents(trace) ==
    IF trace = <<>> THEN <<>>
    ELSE IF Head(trace).event = "agent"
        THEN <<Head(trace).agent_id>> \o ExecutedAgents(Tail(trace))
    ELSE ExecutedAgents(Tail(trace))

\* C20: execute_single_agent with an agent whose can_handle returns false
\* does not call process, appends exactly one error, of that agent, and
\* leaves results, citations and memory as they were; and a sequential
\* execute_agents executes every agent of its list, also after a refusal.
C20_RefusalIsNotFatal ==
    \A r \in RunIds :
        /\ (/\ runs[r].pc = "returned"
            /\ runs[r].kind = "execute_single_agent"
            /\ \E a \in AgentCatalogue :
                   /\ a.agent_id = runs[r].trace[1].agent_id
                   /\ CanHandle(a, runs[r].before) = "false") =>
               /\ ~runs[r].trace[1].processed
               /\ runs[r].history = <<>>
               /\ Len(runs[r].context.errors) = Len(runs[r].before.errors) + 1
               /\ runs[r].context.errors[Len(runs[r].context.errors)].agent_id
                      = runs[r].trace[1].agent_id
               /\ runs[r].context.results = runs[r].before.results
               /\ runs[r].context.citations = runs[r].before.citations
               /\ runs[r].context.short_term_memory = runs[r].before.short_term_memory
        /\ ReturnedAgentsCall(r, FALSE) =>
               ExecutedAgents(runs[r].trace) =
                   [n \in 1..Len(runs[r].resolved) |-> runs[r].resolved[n].agent_id]

\* a sequential call whose first agent refused and whose second processed
C20_Witness ==
    \E r \in RunIds :
        /\ ReturnedAgentsCall(r, FALSE)
        /\ Len(runs[r].trace) = 3
        /\ runs[r].trace[2].event = "agent" /\ ~runs[r].trace[2].processed
        /\ runs[r].trace[3].event = "agent" /\ runs[r].trace[3].processed
        /\ Len(runs[r].context.errors) = 1
        /\ runs[r].context.errors[1].error_message = "refused"

-----------------------------------------------------------------------------
(* execute_workflow: workflows registered before the first call, agents     *)
(* registered and unregistered at any time                                   *)

FlowAgents == {AgentW1, AgentW2, AgentW3}

WorkflowIds == {"wf"}

\* a sequential step, a sequential step whose agent asks for termination, a
\* parallel step with that agent, and a terminal step
StepCatalogue ==
    {Step(<<"w1">>, FALSE, FALSE), Step(<<"w2">>, FALSE, FALSE),
     Step(<<"w1", "w2">>, TRUE, FALSE), Step(<<"w3">>, FALSE, TRUE)}

MaxSteps == 3

StepLists == UNION {[1..n -> StepCatalogue] : n \in 0..MaxSteps}

NextFlow ==
    \/ \E a \in FlowAgents : RegisterAgent(a)
    \/ \E id \in DOMAIN agents : UnregisterAgent(id)
    \/ \E w \in WorkflowIds, steps \in StepLists :
          (\A r \in RunIds : runs[r].pc = "idle") /\ RegisterWorkflow(w, steps)
    \/ \E r \in RunIds, w \in WorkflowIds, c \in InitialContexts :
          ExecuteWorkflowCall(r, w, c)
    \/ \E r \in RunIds : RunSequentialAgent(r)
    \/ \E r \in RunIds, t \in 1..MaxAgents : RunTask(r, t)
    \/ \E r \in RunIds : RunMerge(r)

SpecFlow == Init /\ [][NextFlow]_vars

\* the coroutines make progress: the event loop runs every task that is
\* ready, and the agents' coroutines return
RunStep(r) ==
    \/ RunSequentialAgent(r)
    \/ \E t \in 1..MaxAgents : RunTask(r, t)
    \/ RunMerge(r)

\* the guards of RunStep(r): a call between two awaits can take its next
\* step (a sequential agent, a task that is not done, or the merge when all
\* tasks are done)
InProgress(r) == runs[r].pc \in {"sequential", "parallel"}

\* weak fairness of RunStep(r), with ENABLED <<RunStep(r)>>_vars written as
\* the guard InProgress(r)
SpecFlowFair ==
    /\ SpecFlow
    /\ \A r \in RunIds : []<>(~InProgress(r)) \/ []<><<RunStep(r)>>_vars

-----------------------------------------------------------------------------
(* Properties of execute_workflow (SpecFlow) *)

\* a call of execute_workflow on a registered workflow
WorkflowRun(r) ==
    /\ runs[r].pc # "idle"
    /\ runs[r].kind = "execute_workflow"
    /\ runs[r].status # "not_found"

Returned(r) == runs[r].pc = "returned"

\* the positions of the trace that hold that event
EventsOf(trace, event) == {n \in 1..Len(trace) : trace[n].event = event}

\* the steps for which execute_agents was called
StepsExecuted(trace) == {trace[n].step : n \in EventsOf(trace, "execute_agents")}

\* the number of agents the registry knew when the step was executed
Found(trace, i) == Cardinality({n \in EventsOf(trace, "agent") : trace[n].step = i})

\* the context metadata requested termination when step i ended
FlagAfter(trace, i) ==
    \E n \in EventsOf(trace, "after_step") : trace[n].step = i /\ trace[n].terminate

\* the errors of that kind in the list
ErrorsOf(errors, error_message) ==
    Cardinality({n \in 1..Len(errors) : errors[n].error_message = error_message})

RECURSIVE SumUnknown(_, _)
SumUnknown(run, steps) ==
    IF steps = {} THEN 0
    ELSE LET i == CHOOSE x \in steps : TRUE
         IN  (Len(run.steps[i].agents) - Found(run.trace, i)) + SumUnknown(run, steps \ {i})

\* C15: execute_workflow with a workflow id that is not registered executes
\* no agent and returns the context with exactly one new error and with the
\* results it had.
C15_UnknownWorkflow ==
    \A r \in RunIds :
        (/\ Returned(r)
         /\ runs[r].kind = "execute_workflow"
         /\ runs[r].workflow_id \notin DOMAIN workflows) =>
            /\ runs[r].trace = <<>>
            /\ runs[r].history = <<>>
            /\ Len(runs[r].context.errors) = Len(runs[r].before.errors) + 1
            /\ runs[r].context.results = runs[r].before.results
            /\ runs[r].context.citations = runs[r].before.citations

\* the call on a context that holds a result
C15_Witness ==
    \E r \in RunIds :
        /\ Returned(r)
        /\ runs[r].kind = "execute_workflow"
        /\ runs[r].workflow_id \notin DOMAIN workflows
        /\ runs[r].before.results # <<>>
        /\ runs[r].context.errors # <<>>

\* C16 as stated: a step with unknown agent ids records an error for each
\* of them, and every step declared after it is executed.
C16_UnknownStepNeverStops ==
    \A r \in RunIds :
        (WorkflowRun(r) /\ Returned(r)) =>
            \A i \in StepsExecuted(runs[r].trace) :
                Found(runs[r].trace, i) < Len(runs[r].steps[i].agents) =>
                    \A j \in (i + 1)..Len(runs[r].steps) : j \in StepsExecuted(runs[r].trace)

\* C16 (amended): a step with unknown agent ids records an error for each of
\* them and is otherwise skipped, and the workflow goes on as after any
\* step: the next declared step is executed unless the step is flagged
\* is_terminal or the context metadata requests termination.
C16_UnknownStepIsNotFatal ==
    \A r \in RunIds :
        (WorkflowRun(r) /\ Returned(r)) =>
            /\ ErrorsOf(runs[r].context.errors, "agent_not_found")
                   = SumUnknown(runs[r], StepsExecuted(runs[r].trace))
            /\ \A i \in StepsExecuted(runs[r].trace) :
                   (/\ Found(runs[r].trace, i) < Len(runs[r].steps[i].agents)
                    /\ i < Len(runs[r].steps)
                    /\ ~runs[r].steps[i].is_terminal
                    /\ ~FlagAfter(runs[r].trace, i)) =>
                       (i + 1) \in StepsExecuted(runs[r].trace)

\* three steps, the agent of the second unknown: the third one runs
C16_Witness ==
    \E r \in RunIds :
        /\ WorkflowRun(r) /\ Returned(r)
        /\ Len(runs[r].steps) = 3
        /\ Found(runs[r].trace, 1) > 0
        /\ Found(runs[r].trace, 2) = 0
        /\ Found(runs[r].trace, 3) > 0
        /\ ErrorsOf(runs[r].context.errors, "agent_not_found") = 1

\* C17: once an agent that was processed in a step, sequential or parallel,
\* has set terminate_workflow, execute_agents is called for no later step.
C17_TerminationRequestStops ==
    \A r \in RunIds :
        WorkflowRun(r) =>
            \A n \in EventsOf(runs[r].trace, "agent") :
                runs[r].trace[n].terminate =>
                    \A j \in StepsExecuted(runs[r].trace) : j <= runs[r].trace[n].step

\* the first step flagged is_terminal (0: none)
FirstTerminal(steps) ==
    IF \E i \in 1..Len(steps) : steps[i].is_terminal
        THEN CHOOSE i \in 1..Len(steps) :
                 steps[i].is_terminal /\ \A j \in 1..(i - 1) : ~steps[j].is_terminal
        ELSE 0

\* execute_agents was called for the steps 1, 2, ..., in that order
InDeclaredOrder(trace) ==
    LET calls == EventsOf(trace, "execute_agents")
    IN  \A n \in calls : trace[n].step = Cardinality({m \in calls : m <= n})

\* C18 as stated: steps are executed in declared order, the first step
\* flagged is_terminal is executed, and no step after it is.
C18_FirstTerminalStepRuns ==
    \A r \in RunIds :
        WorkflowRun(r) =>
            /\ InDeclaredOrder(runs[r].trace)
            /\ (Returned(r) /\ FirstTerminal(runs[r].steps) # 0) =>
                   /\ FirstTerminal(runs[r].steps) \in StepsExecuted(runs[r].trace)
                   /\ \A j \in StepsExecuted(runs[r].trace) : j <= FirstTerminal(runs[r].steps)

\* C18 (amended): steps are executed in declared order; no step declared
\* after the first step flagged is_terminal is executed; that terminal step
\* is executed unless the context metadata requested termination after an
\* earlier step.
C18_NothingAfterTerminalStep ==
    \A r \in RunIds :
        WorkflowRun(r) =>
            /\ InDeclaredOrder(runs[r].trace)
            /\ FirstTerminal(runs[r].steps) # 0 =>
                   \A j \in StepsExecuted(runs[r].trace) : j <= FirstTerminal(runs[r].steps)
            /\ (Returned(r) /\ FirstTerminal(runs[r].steps) # 0) =>
                   \/ FirstTerminal(runs[r].steps) \in StepsExecuted(runs[r].trace)
                   \/ \E i \in 1..(FirstTerminal(runs[r].steps) - 1) : FlagAfter(runs[r].trace, i)

\* three steps, the second terminal: its agent processes, the third is left
C18_Witness ==
    \E r \in RunIds :
        /\ WorkflowRun(r) /\ Returned(r)
        /\ Len(runs[r].steps) = 3
        /\ FirstTerminal(runs[r].steps) = 2
        /\ \E n \in EventsOf(runs[r].trace, "agent") :
               runs[r].trace[n].step = 2 /\ runs[r].trace[n].processed
        /\ StepsExecuted(runs[r].trace) = {1, 2}

\* C19: a run of execute_workflow on a registered workflow returns,
\* completed or terminated early, and when it has returned active_workflows
\* holds no entry for its conversation id.
C19_RunEndsUntracked ==
    \A r \in RunIds :
        /\ [](WorkflowRun(r) => <>Returned(r))
        /\ []((WorkflowRun(r) /\ Returned(r)) =>
                  /\ runs[r].status \in {"completed", "terminated"}
                  /\ runs[r].context.conversation_id \notin DOMAIN activeWorkflows)

\* a run that was tracked while its agents worked and has returned early
C19_Witness ==
    \E r \in RunIds :
        /\ WorkflowRun(r) /\ Returned(r)
        /\ runs[r].status = "terminated"
        /\ runs[r].i < Len(runs[r].steps)
        /\ EventsOf(runs[r].trace, "agent") # {}
        /\ DOMAIN activeWorkflows = {}

-----------------------------------------------------------------------------
(* execute_agents with agents that fail: in process (w4, w5), in can_handle  *)
(* (w6), and in handle_error as well (w5)                                    *)

AgentW5 == Agent("w5", "planning", "yes", Writes(<<"plan">>, 0, TRUE, FALSE, TRUE), "raise")

AgentW6 == Agent("w6", "retrieval", "raise", Writes(<<>>, 0, FALSE, FALSE, FALSE), "default")

FailingCatalogue == {AgentW1, AgentW4, AgentW5, AgentW6}

FailingIdLists ==
    UNION {[1..n -> {a.agent_id : a \in FailingCatalogue}] : n \in 0..MaxAgents}

NextFailing ==
    \/ \E a \in FailingCatalogue : RegisterAgent(a)
    \/ \E id \in DOMAIN agents : UnregisterAgent(id)
    \/ \E r \in RunIds, ids \in FailingIdLists, c \in InitialContexts, sq \in BOOLEAN :
          ExecuteAgentsCall(r, ids, c, sq)
    \/ \E r \in RunIds, a \in FailingCatalogue, c \in InitialContexts :
          ExecuteSingleAgentCall(r, a, c)
    \/ \E r \in RunIds : RunSequentialAgent(r)
    \/ \E r \in RunIds, t \in 1..MaxAgents : RunTask(r, t)
    \/ \E r \in RunIds : RunMerge(r)

SpecFailing == Init /\ [][NextFailing]_vars

\* the agents of the catalogue fail whatever the context: in can_handle, or
\* in process once can_handle accepted
Fails(agent) ==
    \/ agent.can_handle = "raise"
    \/ agent.can_handle = "yes" /\ agent.process.raises

\* the error a failure of the agent leaves on the context
FailureError(agent) ==
    [agent_id |-> agent.agent_id,
     error_message |-> IF agent.handle_error = "raise"
                           THEN "failed_and_handler_failed" ELSE "error_in_agent"]

\* how many entries of the sequence are equal to x
Count(seq, x) == Cardinality({n \in 1..Len(seq) : seq[n] = x})

\* C21: a failure of an agent never ends the call: after a failure of
\* process (or can_handle) handle_error is invoked with the context (the
\* default handler leaves its error there); when handle_error fails too, the
\* error naming both failures is on the context that is returned (with what
\* process wrote before it failed); each failure leaves one failure entry in
\* the execution history, and every agent of the list is executed.
C21_FailuresAreContained ==
    \A r \in RunIds :
        (runs[r].pc = "returned" /\ runs[r].kind = "execute_agents") =>
            /\ \A a \in FailingCatalogue :
                   /\ Count(ExecutedAgents(runs[r].trace), a.agent_id)
                          = Count(runs[r].resolved, a)
                   /\ Fails(a) =>
                          /\ Count(runs[r].context.errors, FailureError(a))
                                 = Count(runs[r].resolved, a)
                          /\ Count(runs[r].history, HistoryEntry(a, FALSE))
                                 = Count(runs[r].resolved, a)
            /\ (AgentW5 \in Range(runs[r].resolved) /\ ~runs[r].steps[1].parallel) =>
                   <<"plan">> \in DOMAIN runs[r].context.results
            /\ (~runs[r].steps[1].parallel) =>
                   ExecutedAgents(runs[r].trace) =
                       [n \in 1..Len(runs[r].resolved) |-> runs[r].resolved[n].agent_id]

\* process and handle_error of the first agent failed, the second agent
\* processed
C21_Witness ==
    \E r \in RunIds :
        /\ ReturnedAgentsCall(r, FALSE)
        /\ runs[r].resolved = <<AgentW5, AgentW1>>
        /\ runs[r].context.errors = <<FailureError(AgentW5)>>
        /\ runs[r].history = <<HistoryEntry(AgentW5, FALSE), HistoryEntry(AgentW1, TRUE)>>
        /\ <<"out">> \in DOMAIN runs[r].context.results

-----------------------------------------------------------------------------
(* AgentOrchestrator.dynamic_orchestration.  No other coroutine touches the  *)
(* context of the call and the registry is listed once, so the can_handle    *)
(* loop is one step; each execute_single_agent is a step of its own.         *)

\* role_ordering.get(role.lower(), 99)
RolePriority(role) ==
    CASE Lower(role) \in {"research", "retrieval"} -> 1
      [] Lower(role) = "planning" -> 2
      [] Lower(role) = "reasoning" -> 3
      [] Lower(role) = "synthesis" -> 4
      [] Lower(role) = "response" -> 5
      [] OTHER -> 99

\* the place of one more agent in a list sorted by role priority: after the
\* agents that do not sort later (list.sort is stable)
RECURSIVE InsertByRole(_, _)
InsertByRole(sorted, agent) ==
    IF sorted = <<>> THEN <<agent>>
    ELSE IF RolePriority(Head(sorted).role) <= RolePriority(agent.role)
        THEN <<Head(sorted)>> \o InsertByRole(Tail(sorted), agent)
    ELSE <<agent>> \o sorted

\* variant: the capable agents stay in the order of the registry
SortByRole_Unsorted(agent_list) == agent_list

\* capable_agents.sort(key=...)
RECURSIVE SortByRole(_)
SortByRole(agent_list) ==
    IF agent_list = <<>> THEN <<>>
    ELSE InsertByRole(SortByRole(SubSeq(agent_list, 1, Len(agent_list) - 1)),
                      agent_list[Len(agent_list)])

\* the capability loop: the agents whose can_handle returned true; one that
\* raises is left out
RECURSIVE CapableAgents(_, _)
CapableAgents(all_agents, context) ==
    IF all_agents = <<>> THEN <<>>
    ELSE (IF CanHandle(Head(all_agents), context) = "true"
              THEN <<Head(all_agents)>> ELSE <<>>)
         \o CapableAgents(Tail(all_agents), context)

\* the lists that hold each id of the set once
RECURSIVE Orders(_)
Orders(ids) ==
    IF ids = {} THEN {<<>>}
    ELSE UNION {{<<x>> \o rest : rest \in Orders(ids \ {x})} : x \in ids}

\* registry.list_agents(): the agents in the order of their registration,
\* which the model does not keep: any order
ListAgents(registry) ==
    {[n \in 1..Len(ids) |-> registry[ids[n]]] : ids \in Orders(DOMAIN registry)}

\* dynamic_orchestration up to its first execute_single_agent
DynamicStart(all_agents, context) ==
    LET capable == CapableAgents(all_agents, context)
        run == NewRun("dynamic_orchestration", None, <<>>, context)
    IN  IF capable = <<>>
            THEN [run EXCEPT !.pc = "returned", !.status = "no_capable_agents",
                             !.context = AddError(context, "orchestrator", "no_capable_agents")]
            ELSE [run EXCEPT !.pc = "dynamic", !.queue = SortByRole(capable)]

\* one turn of the execution loop: execute_single_agent, then the test of
\* terminate_orchestration
DynamicAgentStep(run) ==
    LET agent == Head(run.queue)
        e == ExecuteSingleAgent(agent, run.context)
        stop == "terminate_orchestration" \in e.context.metadata
        run1 == [run EXCEPT !.context = e.context, !.queue = Tail(@),
                            !.history = @ \o e.history,
                            !.i = @ + 1,
                            !.trace = @ \o <<Event("agent", run.i, agent.agent_id, e.processed, FALSE),
                                             Event("after_agent", run.i, agent.agent_id, FALSE, stop)>>]
    IN  IF stop THEN [run1 EXCEPT !.pc = "returned", !.status = "terminated"]
        ELSE IF run1.queue = <<>> THEN [run1 EXCEPT !.pc = "returned", !.status = "completed"]
        ELSE run1

DynamicOrchestrationCall(r, all_agents, context) ==
    /\ Free(r)
    /\ runs' = [runs EXCEPT ![r] = DynamicStart(all_agents, context)]
    /\ UNCHANGED <<agents, workflows, activeWorkflows, backendVars, apiVars, heap>>

RunDynamicAgent(r) ==
    /\ runs[r].pc = "dynamic"
    /\ runs' = [runs EXCEPT ![r] = DynamicAgentStep(runs[r])]
    /\ UNCHANGED <<agents, workflows, activeWorkflows, backendVars, apiVars, heap>>

\* d2 has its role in mixed case, d3 asks to end the orchestration, d5 has a
\* role the table does not list; w3 refuses a context without citations and
\* w6 fails in can_handle
AgentD2 == Agent("d2", "Retrieval", "yes", Writes(<<"docs">>, 0, FALSE, FALSE, FALSE), "default")

AgentD3 == Agent("d3", "reasoning", "yes", Signalling(Writes(<<>>, 0, FALSE, FALSE, FALSE), "terminate_orchestration"), "default")

AgentD5 == Agent("d5", "custom", "yes", Writes(<<"extra">>, 0, FALSE, FALSE, FALSE), "default")

DynamicCatalogue == {AgentW1, AgentD2, AgentD3, AgentW3, AgentD5, AgentW6}

SignalledContext == NewAgentContext("conv1", {"terminate_orchestration"})

DynamicContexts == InitialContexts \cup {SignalledContext}

NextDynamic ==
    \/ \E a \in DynamicCatalogue : RegisterAgent(a)
    \/ \E id \in DOMAIN agents : UnregisterAgent(id)
    \/ \E r \in RunIds, c \in DynamicContexts : \E l \in ListAgents(agents) :
          DynamicOrchestrationCall(r, l, c)
    \/ \E r \in RunIds : RunDynamicAgent(r)

SpecDynamic == Init /\ [][NextDynamic]_vars

-----------------------------------------------------------------------------
(* Properties of dynamic_orchestration (SpecDynamic) *)

DynamicRun(r) == runs[r].pc # "idle" /\ runs[r].kind = "dynamic_orchestration"

AgentOf(agent_id) == CHOOSE a \in DynamicCatalogue : a.agent_id = agent_id

\* the executed agents were capable at the call and are in non-decreasing
\* order of role priority
CapableInRoleOrder(run) ==
    LET executed == ExecutedAgents(run.trace)
    IN  /\ \A n \in 1..Len(executed) :
               CanHandle(AgentOf(executed[n]), run.before) = "true"
        /\ \A m, n \in 1..Len(executed) :
               m < n => RolePriority(AgentOf(executed[m]).role)
                            <= RolePriority(AgentOf(executed[n]).role)

\* no agent is executed after an agent that left the metadata signalling
\* termination
StopsAfterSignal(run) ==
    \A n \in EventsOf(run.trace, "after_agent") :
        run.trace[n].terminate => \A m \in EventsOf(run.trace, "agent") : m < n

\* C22 as stated: only capable agents, in role order, and no agent is
\* executed once the context metadata signals termination.
C22_NoAgentOnceSignalled ==
    \A r \in RunIds :
        DynamicRun(r) =>
            /\ CapableInRoleOrder(runs[r])
            /\ StopsAfterSignal(runs[r])
            /\ "terminate_orchestration" \in runs[r].before.metadata =>
                   EventsOf(runs[r].trace, "agent") = {}

\* C22 (amended): only capable agents, in role order; the metadata is
\* tested after each executed agent, so no agent follows one that left the
\* metadata signalling termination, and a call whose metadata signals
\* termination from the start executes its first capable agent only.
C22_NoAgentAfterSignallingAgent ==
    \A r \in RunIds :
        DynamicRun(r) =>
            /\ CapableInRoleOrder(runs[r])
            /\ StopsAfterSignal(runs[r])
            /\ "terminate_orchestration" \in runs[r].before.metadata =>
                   Len(ExecutedAgents(runs[r].trace)) <= 1
            /\ (Returned(r) /\ runs[r].status # "no_capable_agents") =>
                   ExecutedAgents(runs[r].trace) # <<>>

\* two agents of the first priority, then the reasoning agent that ends the
\* orchestration before the agent of the unlisted role
C22_Witness ==
    \E r \in RunIds :
        /\ DynamicRun(r) /\ Returned(r)
        /\ runs[r].status = "terminated"
        /\ ExecutedAgents(runs[r].trace) = <<"d2", "w1", "d3">>
        /\ runs[r].queue = <<AgentD5>>
        /\ "terminate_orchestration" \notin runs[r].before.metadata

-----------------------------------------------------------------------------
(* unregister_agent_type with live instances and dependent types: types     *)
(* that require the other one, instantiate, unregister                       *)

UnregMetadata ==
    {Metadata(id, r, <<>>, FALSE) :
        id \in InstAgentIds, r \in {<<>>} \cup {<<x>> : x \in InstAgentIds}}

NextUnreg ==
    \/ \E m \in UnregMetadata : RegisterAgentType(m, "Agent")
    \/ \E a \in InstAgentIds \cup {"c"} : UnregisterAgentType(a)
    \/ \E a \in InstAgentIds : InstantiateAgentCall(a, NoId)

SpecUnreg == Init /\ [][NextUnreg]_vars

\* the instances that were not created from that agent id, in dict order
RECURSIVE InstancesOfOthers(_, _)
InstancesOfOthers(instances, agent_id) ==
    IF instances = <<>> THEN <<>>
    ELSE (IF Head(instances).agent = agent_id THEN <<>> ELSE <<Head(instances)>>)
         \o InstancesOfOthers(Tail(instances), agent_id)

\* C23: unregister_agent_type(id) returns false and changes nothing when id
\* is not registered; when it is registered the call returns true, the type
\* and every instance of it are gone, also when another registered type
\* requires id, and the other types and their instances are as before.
C23_UnregisterRemovesTypeAndInstances ==
    [][lastCall'.op = "unregister_agent_type" =>
          LET id == lastCall'.agent_id
          IN  IF ~Registered(agentTypes, id)
                  THEN /\ lastCall'.ret = FALSE
                       /\ UNCHANGED <<agentTypes, agentClasses, agentInstances>>
                  ELSE /\ lastCall'.ret = TRUE
                       /\ ~Registered(agentTypes', id)
                       /\ InstancesOf(agentInstances', id) = {}
                       /\ agentInstances' = InstancesOfOthers(agentInstances, id)
                       /\ \A b \in AgentIds \ {id} :
                              /\ agentTypes'[b] = agentTypes[b]
                              /\ agentClasses'[b] = agentClasses[b]]_vars

\* "a" was unregistered while "b" requires it: the instance of "a", the
\* first of the two that were created, is gone and that of "b" is kept
C23_Witness ==
    /\ lastCall.op = "unregister_agent_type"
    /\ lastCall.agent_id = "a" /\ lastCall.ret = TRUE
    /\ Registered(agentTypes, "b") /\ agentTypes["b"].requires = <<"a">>
    /\ agentInstances = <<Instance(<<"b", 2>>, "b")>>

-----------------------------------------------------------------------------
(* The chat API (api/routes/orchestrator_chat.py): the session store is the  *)
(* `session` variable, the handoff manager the singleton whose history is    *)
(* `handoffHistory`.  Time advances in ticks; the sweep is a background task *)
(* that any request schedules, so it can run at any time.                    *)

MaxTime == 3

\* the idle timeout of the sweep (3600 s), in ticks
IdleTimeout == 1

\* registry._config.default_agent_id
DefaultAgentId == "a"

\* a: a BaseAgent subclass that leaves last_activity alone, with a trigger
\* to b; b: FormCollectorAgent, whose process_message updates last_activity
ApiRegistrations ==
    {<<Metadata("a", <<>>,
                <<Trigger("b", "d_transfer", 1, NoCond, <<"transfer">>, <<>>)>>, TRUE),
       "Agent">>,
     <<Metadata("b", <<>>, <<>>, TRUE), "FormCollectorAgent">>}

\* process_message of the class calls update_last_activity
UpdatesActivity(class) == class = "FormCollectorAgent"

\* get_or_create_session
GetOrCreateSession(s) ==
    IF session[s] # NoSession THEN session[s] ELSE NewSession(s, DefaultAgentId, NoData)

\* the instances whose process_message was called by a handler
ProcessedInstances(trace) ==
    {trace[n].instance : n \in {m \in 1..Len(trace) : trace[m].event = "process_message"}}

\* last_activity after a handler: set by the constructor of an instance the
\* handler created, and by process_message of a class that updates it
ActivityAfter(instances, trace) ==
    [i \in InstanceIds(instances) |->
        IF i \notin InstanceIds(agentInstances) THEN now
        ELSE IF /\ i \in ProcessedInstances(trace)
                /\ UpdatesActivity(agentClasses[instances[IndexOf(instances, i)].agent])
            THEN now
        ELSE IF i \in DOMAIN lastActivity THEN lastActivity[i]
        ELSE now]

\* POST /api/chat/message: the session is looked up or created, then
\* handle_message; an exception becomes a 500 answer
ChatMessage(s, message, responses) ==
    \E o \in {HandleMessage(agentTypes, agentClasses, agentInstances, GetOrCreateSession(s),
                            handoffHistory[s], message, NoAdditionalContext, responses)} :
        /\ Len(o.instances) <= MaxInstances
        /\ Len(o.sess.message_history) <= MaxHistory
        /\ Len(o.log) <= MaxHandoffs
        /\ agentInstances' = o.instances
        /\ session' = [session EXCEPT ![s] = o.sess]
        /\ handoffHistory' = [handoffHistory EXCEPT ![s] = o.log]
        /\ lastActivity' = ActivityAfter(o.instances, o.trace)
        /\ lastMessage' = [lastMessage EXCEPT ![s] =
                              IF ~o.reply.raised /\ ProcessedInstances(o.trace) # {}
                                  THEN now ELSE @]
        /\ lastCall' = [op |-> "chat_message", session_id |-> s,
                        status |-> IF o.reply.raised THEN 500 ELSE 200]
        /\ UNCHANGED <<agentTypes, agentClasses, orchVars, now, heap>>

\* BaseAgent.is_idle(timeout_seconds) of the instance
IsIdle(instance_id, timeout_seconds) == now - lastActivity[instance_id] > timeout_seconds

\* the first loop of cleanup_old_sessions: is the session to be removed
ToRemove(sess) ==
    IF sess.active_agent_instance_id # NoId
        THEN IF IndexOf(agentInstances, sess.active_agent_instance_id) # 0
                 THEN IsIdle(sess.active_agent_instance_id, IdleTimeout)
                 ELSE TRUE
        ELSE TRUE

\* cleanup_old_sessions: the sessions found are popped from the store
CleanupOldSessions ==
    LET to_remove == {s \in SessionIds : session[s] # NoSession /\ ToRemove(session[s])}
    IN  /\ session' = [s \in SessionIds |-> IF s \in to_remove THEN NoSession ELSE session[s]]
        /\ lastMessage' = [s \in SessionIds |-> IF s \in to_remove THEN Never ELSE lastMessage[s]]
        /\ lastCall' = [op |-> "cleanup_old_sessions", removed |-> to_remove]
        /\ UNCHANGED <<agentTypes, agentClasses, agentInstances, handoffHistory, orchVars,
                       now, lastActivity, heap>>

\* HandoffManager.clear_history(session_id)
ClearHistory(history, session_id) == [history EXCEPT ![session_id] = <<>>]

\* DELETE /api/chat/sessions/{session_id}
DeleteSession(s) ==
    /\ IF session[s] = NoSession
           THEN UNCHANGED <<session, handoffHistory, lastMessage>>
           ELSE /\ session' = [session EXCEPT ![s] = NoSession]
                /\ handoffHistory' = ClearHistory(handoffHistory, s)
                /\ lastMessage' = [lastMessage EXCEPT ![s] = Never]
    /\ lastCall' = [op |-> "delete_session", session_id |-> s,
                    status |-> IF session[s] = NoSession THEN 404 ELSE 200]
    /\ UNCHANGED <<agentTypes, agentClasses, agentInstances, orchVars, now, lastActivity, heap>>

\* time passes
Tick ==
    /\ now < MaxTime
    /\ now' = now + 1
    /\ UNCHANGED <<agentTypes, agentClasses, agentInstances, session, handoffHistory,
                   lastCall, orchVars, lastActivity, lastMessage, heap>>

NextApi ==
    \/ \E r \in ApiRegistrations : RegisterAgentType(r[1], r[2])
    \/ \E i \in InstanceIds(agentInstances) : RemoveAgentInstance(i)
    \/ \E s \in SessionIds, m \in SessMessages, rs \in ResponseScripts : ChatMessage(s, m, rs)
    \/ CleanupOldSessions
    \/ \E s \in SessionIds : DeleteSession(s)
    \/ Tick

SpecApi == Init /\ [][NextApi]_vars

-----------------------------------------------------------------------------
(* Properties of the chat API (SpecApi) *)

\* C24: the sweep removes a session only when no message of it was
\* processed within the idle timeout.
C24_SweepSparesActiveSessions ==
    [][lastCall'.op = "cleanup_old_sessions" =>
          \A s \in SessionIds :
              (session[s] # NoSession /\ session'[s] = NoSession) =>
                  \/ lastMessage[s] = Never
                  \/ now - lastMessage[s] > IdleTimeout]_vars

\* C25: the handoff manager holds records only for the session ids that
\* are in the session store.
C25_NoHistoryWithoutSession ==
    \A s \in SessionIds : session[s] = NoSession => handoffHistory[s] = <<>>

-----------------------------------------------------------------------------
(* Properties of the merge of results (SpecAgents) *)

\* the number of results the tasks set in their copies
RECURSIVE ResultsOfTasks(_, _)
ResultsOfTasks(tasks, n) ==
    IF n > Len(tasks) THEN 0
    ELSE Cardinality(DOMAIN tasks[n].context.results) + ResultsOfTasks(tasks, n + 1)

\* C26: after a parallel execute_agents every result that an agent set in
\* its copy under k is in the original context under agent_k with that
\* value, no result of the step has overwritten another one, and the
\* results that the original held before the step have kept their values.
C26_MergedResultsDoNotCollide ==
    \A r \in RunIds :
        (ReturnedAgentsCall(r, TRUE) /\ runs[r].tasks # <<>>) =>
            /\ \A t \in 1..Len(runs[r].tasks) :
                   \A k \in DOMAIN runs[r].tasks[t].context.results :
                       /\ PrefixedKey(runs[r].tasks[t].agent.agent_id, k)
                              \in DOMAIN runs[r].context.results
                       /\ runs[r].context.results[PrefixedKey(runs[r].tasks[t].agent.agent_id, k)]
                              = runs[r].tasks[t].context.results[k]
            /\ Cardinality(DOMAIN runs[r].context.results \ DOMAIN runs[r].before.results)
                   = ResultsOfTasks(runs[r].tasks, 1)
            /\ \A k \in DOMAIN runs[r].before.results :
                   /\ k \in DOMAIN runs[r].context.results
                   /\ runs[r].context.results[k] = runs[r].before.results[k]

-----------------------------------------------------------------------------
(* Properties of the handoffs that an agent requests (SpecSess) *)

\* the handler call passed the triggers, reached the active agent, and the
\* agent's reply asked for a handoff to a registered agent type
AgentRequestsHandoff(s, responses) ==
    /\ lastCall'.decided = None
    /\ lastCall'.trace # <<>>
    /\ ~responses[1].raises
    /\ responses[1].handoff_to # None
    /\ Registered(agentTypes, responses[1].handoff_to)

\* the entries that handle_message records before it looks at 'handoff_to'
Recorded(message, response) ==
    IF response.has_message THEN <<UserEntry(message), AssistantEntry>>
    ELSE <<UserEntry(message)>>

\* C27: when the reply of the active agent's process_message carries
\* handoff_to = T for a registered type T, handle_message records the user
\* message and the reply and then hands off: on return T is the active agent,
\* exactly one HandoffContext with the reply's handoff_reason was appended,
\* and the same user message was given to process_message of an instance of
\* T with a handoff_context.
C27_RequestedHandoffReachesTarget ==
    [][\A s \in SessionIds, m \in SessMessages, c \in AdditionalContexts,
          rs \in ResponseScripts :
          (HandleMessageCall(s, m, c, rs) /\ AgentRequestsHandoff(s, rs)) =>
              LET T == rs[1].handoff_to
                  log == handoffHistory'[s]
                  trace == lastCall'.trace
                  before == session[s].message_history \o Recorded(m, rs[1])
              IN  /\ ~lastCall'.reply.raised
                  /\ session'[s].active_agent_id = T
                  /\ lastCall'.appended = 1
                  /\ log[Len(log)] = HandoffContext(session[s].active_agent_id, T, s,
                                                    rs[1].handoff_reason, before,
                                                    session[s].data)
                  /\ Len(session'[s].message_history) >= Len(before)
                  /\ SubSeq(session'[s].message_history, 1, Len(before)) = before
                  /\ \E i \in ProcessEvents(trace) :
                         /\ i > 1
                         /\ trace[i - 1].event = "initiate_handoff"
                         /\ trace[i].agent = T
                         /\ trace[i].message = m
                         /\ trace[i].handoff_context]_vars

-----------------------------------------------------------------------------
(* Properties of the reason of a trigger handoff (SpecReason) *)

\* C28: when a trigger starts the handoff, the reason in the appended
\* HandoffContext and in the reply is the description of the trigger that
\* matched, the matching trigger of highest priority, also when several
\* triggers of the agent have the same target and different descriptions.
C28_ReasonOfMatchingTrigger ==
    [][\A s \in SessionIds, m \in Messages, c \in ReasonContexts, rs \in ReasonScripts :
          (/\ HandleMessageCall(s, m, c, rs)
           /\ lastCall'.decided # None
           /\ lastCall'.appended = 1) =>
              LET triggers == agentTypes[session[s].active_agent_id].handoff_triggers
                  e == EvaluateHandoffTriggers(agentTypes, session[s].active_agent_id,
                                               MergeContext(m, c))
                  log == handoffHistory'[s]
              IN  /\ e.matched = BestMatch(triggers, MergeContext(m, c))
                  /\ log[Len(log)].reason = triggers[e.matched].description
                  /\ lastCall'.reply.handoff.reason = triggers[e.matched].description]_vars

-----------------------------------------------------------------------------
(* Properties of the audit log (SpecAudit) *)

IsPrefix(a, b) == Len(a) <= Len(b) /\ SubSeq(b, 1, Len(a)) = a

\* what a reader of a data dict sees: the strings, and for the references
\* the present content of the objects
Seen(data, h) ==
    [k \in DOMAIN data |-> IF IsRef(data[k]) THEN h[data[k].ref] ELSE data[k].str]

\* what a reader of a HandoffContext sees
SeenRecord(record, h) ==
    [record EXCEPT !.collected_data = Seen(record.collected_data, h)]

\* C29: the audit log of a session is append-only and its records are
\* snapshots: a step keeps every record as it reads, and a record that a
\* step appends holds the session's message history and data of the moment
\* of the handoff, whatever the session appends or changes later.
C29_RecordsAreSnapshots ==
    [][\A s \in SessionIds :
          LET old == handoffHistory[s]
              new == handoffHistory'[s]
          IN  /\ Len(new) >= Len(old)
              /\ \A i \in 1..Len(old) : SeenRecord(new[i], heap') = SeenRecord(old[i], heap)
              /\ \A i \in (Len(old) + 1)..Len(new) :
                     /\ Seen(new[i].collected_data, heap') = Seen(session[s].data, heap)
                     /\ IsPrefix(session[s].message_history, new[i].message_history)
                     /\ IsPrefix(new[i].message_history, session'[s].message_history)]_vars

-----------------------------------------------------------------------------
(* Properties of failing condition functions (SpecEval) *)

\* the condition function of the trigger does not resolve, or raises
ConditionFails(trigger) ==
    /\ trigger.condition_function # NoCond
    /\ trigger.condition_function \notin {"conds.yes", "conds.no"}

WithoutFailing(triggers) == SelectSeq(triggers, LAMBDA t : ~ConditionFails(t))

\* C30: a trigger whose condition function cannot be resolved or raises is
\* treated as a trigger that does not match, and the evaluation goes on with
\* the next trigger in priority order: evaluate_handoff_triggers ends as it
\* would for the agent's triggers without the failing ones, so a matching
\* trigger of lower priority still determines the target.
C30_FailingConditionIsSkipped ==
    (lastCall.op = "evaluate_handoff_triggers" /\ Registered(agentTypes, lastCall.agent_id)) =>
        LET rest == WithoutFailing(agentTypes[lastCall.agent_id].handoff_triggers)
            e == EvaluateFrom(rest, SortedByPriority(rest), 1, lastCall.context)
        IN  /\ lastCall.raised = e.raised
            /\ lastCall.ret = e.target

\* a trigger whose condition function is missing and one whose condition
\* function raises, both of higher priority than the matching trigger that
\* gave the target, and both with another target
C30_Witness ==
    /\ lastCall.op = "evaluate_handoff_triggers"
    /\ Registered(agentTypes, lastCall.agent_id)
    /\ ~lastCall.raised
    /\ LET triggers == agentTypes[lastCall.agent_id].handoff_triggers
           matching == MatchingTriggers(triggers, lastCall.context)
       IN  /\ matching # {}
           /\ lastCall.ret = triggers[BestMatch(triggers, lastCall.context)].target_agent_id
           /\ \A name \in {"conds.missing", "conds.raises"} :
                  \E i \in 1..Len(triggers) :
                      /\ triggers[i].condition_function = name
                      /\ triggers[i].priority
                             > triggers[BestMatch(triggers, lastCall.context)].priority
                      /\ triggers[i].target_agent_id # lastCall.ret

-----------------------------------------------------------------------------
(* Properties of the citations and the memory of a context (SpecAgents) *)

\* the contexts of a run: the caller's, and the copies of the tasks
ContextsOf(run) ==
    IF run.pc = "idle" THEN {}
    ELSE {run.context} \cup {run.tasks[t].context : t \in 1..Len(run.tasks)}

\* C31: in every reachable context the citation ids are 1-indexed and
\* unique: the i-th entry of context.citations has id i, after add_citation
\* calls and after the merge of a sequential or parallel execute_agents.
C31_CitationIdsArePositions ==
    \A r \in RunIds :
        \A context \in ContextsOf(runs[r]) :
            \A i \in 1..Len(context.citations) : context.citations[i].id = i

\* the entries that the tasks appended to the memory of their copies, in the
\* order of the agent list
RECURSIVE AppendedByTasks(_, _, _)
AppendedByTasks(tasks, before, n) ==
    IF n > Len(tasks) THEN <<>>
    ELSE SubSeq(tasks[n].context.short_term_memory, Len(before) + 1,
                Len(tasks[n].context.short_term_memory))
             \o AppendedByTasks(tasks, before, n + 1)

\* C32: after a parallel execute_agents the memory of the original context
\* is the entries it held before the step, each once, followed by the
\* entries that the agents appended during the step, in agent-list order.
C32_MemoryIsNotDuplicated ==
    \A r \in RunIds :
        (ReturnedAgentsCall(r, TRUE) /\ runs[r].tasks # <<>>) =>
            runs[r].context.short_term_memory =
                runs[r].before.short_term_memory
                    \o AppendedByTasks(runs[r].tasks, runs[r].before.short_term_memory, 1)

-----------------------------------------------------------------------------
(* Rejected registrations: types with live instances, re-registered with    *)
(* metadata that requires in a circle or carries a trigger to itself         *)

RejectMetadata ==
    UnregMetadata
        \cup {Metadata(id, <<>>, t, FALSE) : id \in InstAgentIds, t \in RegTriggerLists}

NextReject ==
    \/ \E m \in RejectMetadata, c \in {"Agent", "FormCollectorAgent"} : RegisterAgentType(m, c)
    \/ \E a \in InstAgentIds : InstantiateAgentCall(a, NoId)

SpecReject == Init /\ [][NextReject]_vars

\* C33: a register_agent_type call that fails validation (requires in a
\* circle, or a trigger to the type itself) leaves the registered types,
\* their classes and the live instances as they were, also when the rejected
\* metadata carries the id of a registered type.
C33_RejectedRegistrationChangesNothing ==
    [][(lastCall'.op = "register_agent_type" /\ lastCall'.raised # None) =>
           /\ agentTypes' = agentTypes
           /\ agentClasses' = agentClasses
           /\ agentInstances' = agentInstances]_vars

\* a rejected registration under the id of a registered type with a live
\* instance, with other metadata and another class than the stored ones
C33_Witness ==
    /\ lastCall.op = "register_agent_type"
    /\ lastCall.raised = "self_handoff"
    /\ Registered(agentTypes, lastCall.metadata.id)
    /\ InstancesOf(agentInstances, lastCall.metadata.id) # {}
    /\ agentTypes[lastCall.metadata.id] # lastCall.metadata
    /\ agentClasses[lastCall.metadata.id] # lastCall.agent_class
    /\ \E a \in InstAgentIds :
           /\ Registered(agentTypes, a)
           /\ agentTypes[a].requires # <<>>

-----------------------------------------------------------------------------
(* Properties of generated instance ids (SpecInst) *)

\* C34: instantiate_agent without an explicit instance_id, for a registered
\* type that is not a singleton (and whose class constructs), succeeds and
\* returns a generated instance id that no live instance carried, after any
\* sequence of earlier instantiate_agent and remove_agent_instance calls.
C34_GeneratedIdIsFresh ==
    [][(/\ lastCall'.op = "instantiate_agent"
        /\ lastCall'.instance_id = NoId
        /\ Registered(agentTypes, lastCall'.agent_id)
        /\ ~agentTypes[lastCall'.agent_id].singleton
        /\ agentClasses[lastCall'.agent_id] = "Agent")
       => (/\ lastCall'.raised = None
           /\ lastCall'.ret \notin InstanceIds(agentInstances)
           /\ lastCall'.ret \in InstanceIds(agentInstances'))]_vars

-----------------------------------------------------------------------------
(* Handoffs in a circle: a hands off to b and b to a on the same keyword,   *)
(* and the replies of the agents ask for a handoff to either                 *)

CycleRegistrations ==
    {Metadata("a", <<>>, <<Trigger("b", "d_forth", 1, NoCond, <<"transfer">>, <<>>)>>, TRUE),
     Metadata("b", <<>>, <<Trigger("a", "d_back", 1, NoCond, <<"transfer">>, <<>>)>>, TRUE)}

CycleResponses ==
    {Response(FALSE, TRUE, None, None), Response(TRUE, FALSE, None, None),
     Response(FALSE, TRUE, "a", "back"), Response(FALSE, TRUE, "b", "forth")}

CycleScripts ==
    {<<r>> : r \in CycleResponses}
        \cup {<<r1, r2>> : r1 \in {r \in CycleResponses : r.handoff_to # None},
                           r2 \in CycleResponses}

NextCycle ==
    \/ \E m \in CycleRegistrations : RegisterAgentType(m, "Agent")
    \/ \E a \in {"a", "b"} : UnregisterAgentType(a)
    \/ \E s \in SessionIds, a \in {"a", "b"} : CreateSession(s, a, NoData)
    \/ \E s \in SessionIds, m \in SessMessages, rs \in CycleScripts :
          HandleMessageCall(s, m, NoAdditionalContext, rs)

SpecCycle == Init /\ [][NextCycle]_vars

HandoffEvents(trace) == {i \in 1..Len(trace) : trace[i].event = "initiate_handoff"}

\* C35: a handle_message call performs at most one handoff, also when the
\* triggers or the handoff_to requests of the agents point at each other in a
\* circle: whatever the message and the replies, the call appends at most
\* one HandoffContext and changes the active agent at most once, to the
\* target of that record, and a handoff that the reply of the target agent
\* asks for is not followed.
C35_AtMostOneHandoffPerCall ==
    \A s \in SessionIds, m \in SessMessages, rs \in CycleScripts :
        session[s] # NoSession =>
            LET o == HandleMessage(agentTypes, agentClasses, agentInstances, session[s],
                                   handoffHistory[s], m, NoAdditionalContext, rs)
                appended == Len(o.log) - Len(handoffHistory[s])
            IN  /\ appended \in {0, 1}
                /\ Cardinality(HandoffEvents(o.trace)) = appended
                /\ Cardinality(ProcessEvents(o.trace)) <= 2
                /\ IF appended = 1
                       THEN /\ o.log[Len(o.log)].source_agent_id = session[s].active_agent_id
                            /\ o.sess.active_agent_id = o.log[Len(o.log)].target_agent_id
                       ELSE o.sess.active_agent_id = session[s].active_agent_id

\* a message that the triggers of a send to b and the triggers of b would
\* send back to a: handled with one handoff, b the active agent
C35_Witness ==
    /\ lastCall.op = "handle_message"
    /\ lastCall.before_active = "a"
    /\ lastCall.decided = "b"
    /\ lastCall.appended = 1
    /\ session[lastCall.session_id].active_agent_id = "b"
    /\ \E i \in ProcessEvents(lastCall.trace) :
           EvaluateHandoffTriggers(agentTypes, "b",
                                   Context(TRUE, lastCall.trace[i].message, FALSE, {})).target = "a"

-----------------------------------------------------------------------------
(* Properties of the message history (SpecCycle) *)

\* C36: after a handle_message call that returns a reply, the message
\* history holds a user entry for the message of the call, placed before
\* every assistant reply produced for it, whether the message was processed
\* by the active agent, handed off by a trigger, or handed off on the
\* agent's request.
C36_UserEntryBeforeReplies ==
    [][\A s \in SessionIds, m \in SessMessages, rs \in CycleScripts :
          (HandleMessageCall(s, m, NoAdditionalContext, rs) /\ ~lastCall'.reply.raised) =>
              LET old == session[s].message_history
                  new == session'[s].message_history
                  added == SubSeq(new, Len(old) + 1, Len(new))
              IN  /\ IsPrefix(old, new)
                  /\ added # <<>>
                  /\ added[1] = UserEntry(m)
                  /\ \A i \in 2..Len(added) : added[i].role = "assistant"]_vars

-----------------------------------------------------------------------------
(* Properties of the active agent after perform_handoff (SpecSess) *)

\* C37: perform_handoff never leaves active_agent_id set to an agent type
\* that is not registered at the time of the call: when the target is not
\* registered the active agent is left as it was, whether the session had
\* an active agent or none.
C37_UnregisteredTargetNotActivated ==
    (lastCall.op = "perform_handoff" /\ ~Registered(agentTypes, lastCall.target)) =>
        session[lastCall.session_id].active_agent_id = lastCall.before_active

-----------------------------------------------------------------------------
(* Properties of the evaluation context (SpecSess) *)

\* the additional context without a 'message' key
WithoutMessage(additional_context) ==
    Context(FALSE, <<>>, additional_context.has_intents, additional_context.intents)

\* C38: the handoff decision of handle_message depends only on the message
\* argument and the session for the fields that the session owns: the text
\* matched against the keyword triggers is the message passed by the caller,
\* so a 'message' key in additional_context does not change the decision.
C38_DecisionIgnoresSuppliedMessage ==
    \A s \in SessionIds, m \in SessMessages, c \in AdditionalContexts :
        session[s] # NoSession =>
            Decided(agentTypes, session[s], m, c)
                = Decided(agentTypes, session[s], m, WithoutMessage(c))

-----------------------------------------------------------------------------
(* execute_workflow called twice for one conversation: two coroutines of    *)
(* the same orchestrator, interleaved at their awaits, share the entry of   *)
(* active_workflows that is keyed by the conversation id                    *)

InterleavedRunIds == {"run1", "run2"}

InterleavedWorkflowIds == {"wf", "wf2"}

\* one sequential step, and two sequential steps
InterleavedStepLists ==
    {<<Step(<<"w1">>, FALSE, FALSE)>>,
     <<Step(<<"w1">>, FALSE, FALSE), Step(<<"w2">>, FALSE, FALSE)>>}

InitInterleaved ==
    /\ agentTypes = [a \in AgentIds |-> NoMeta]
    /\ agentClasses = [a \in AgentIds |-> None]
    /\ agentInstances = <<>>
    /\ session = [s \in SessionIds |-> NoSession]
    /\ handoffHistory = [s \in SessionIds |-> <<>>]
    /\ lastCall = [op |-> "init"]
    /\ agents = <<>>
    /\ workflows = <<>>
    /\ activeWorkflows = <<>>
    /\ runs = [r \in InterleavedRunIds |-> NoRun]
    /\ InitApi

NextInterleaved ==
    \/ \E a \in {AgentW1, AgentW2} : RegisterAgent(a)
    \/ \E w \in InterleavedWorkflowIds, steps \in InterleavedStepLists :
          (\A r \in InterleavedRunIds : runs[r].pc = "idle") /\ RegisterWorkflow(w, steps)
    \/ \E r \in InterleavedRunIds, w \in InterleavedWorkflowIds :
          ExecuteWorkflowCall(r, w, FreshContext)
    \/ \E r \in InterleavedRunIds : RunSequentialAgent(r)

SpecInterleaved == InitInterleaved /\ [][NextInterleaved]_vars

\* the call in slot r is an execute_workflow between two of its awaits
WorkflowInProgress(r) ==
    /\ runs[r].pc \in {"sequential", "parallel"}
    /\ runs[r].kind = "execute_workflow"

\* C39: while an execute_workflow run is in progress, active_workflows has
\* an entry for the conversation id of its context, the workflow_id of the
\* entry is the workflow of this run, its steps_completed is the number of
\* steps this run has finished and is at most its steps_total, also when a
\* second run for the same conversation id is interleaved with it.
C39_EntryTracksItsRun ==
    \A r \in InterleavedRunIds :
        WorkflowInProgress(r) =>
            LET conv == runs[r].context.conversation_id
            IN  /\ conv \in DOMAIN activeWorkflows
                /\ activeWorkflows[conv].workflow_id = runs[r].workflow_id
                /\ activeWorkflows[conv].steps_completed = runs[r].i - 1
                /\ activeWorkflows[conv].steps_completed <= activeWorkflows[conv].steps_total

=============================================================================
